---- MODULE Spec2Model ----
(***************************************************************************)
(* A model of the DemoMed risk-scoring client: the tolerant parsers and    *)
(* scorers of src/src/scoring.ts, the alert-list builder of                *)
(* src/src/alerts.ts, the retrying transport and the paginated fetch of    *)
(* src/src/api.ts, and the two entry points that submit (src/src/cli.ts    *)
(* and the server kept in src/src/alerts.ts).                              *)
(*                                                                         *)
(* JavaScript values are records of one shape, so that values of different *)
(* types can sit in one set:  t is the type tag, n the number (in units of *)
(* 1/Scale), s the string (a sequence of one-character strings), a the     *)
(* elements of an array and o the properties of an object.                 *)
(***************************************************************************)
EXTENDS Integers, Sequences, FiniteSets, TLC

\* Decimal digits kept after the point by the model's numbers.  Every number
\* the model is given carries at most this many fraction digits, so that the
\* comparisons of the code (on doubles) agree with the comparisons here.
FracDigits == 2

RECURSIVE Pow10(_)
Pow10(k) == IF k = 0 THEN 1 ELSE 10 * Pow10(k - 1)

Scale == Pow10(FracDigits)

\* The number with the decimal expansion x.y (one fraction digit), e.g.
\* Tenths(996) is 99.6.
Tenths(k) == (k * Scale) \div 10

Max(x, y) == IF x >= y THEN x ELSE y
Min(x, y) == IF x <= y THEN x ELSE y

---------------------------------------------------------------------------
(* JavaScript values *)

JS(t, n, s, a, o) == [t |-> t, n |-> n, s |-> s, a |-> a, o |-> o]

Undefined == JS("undefined", 0, <<>>, <<>>, <<>>)
JNull     == JS("null", 0, <<>>, <<>>, <<>>)
NaN       == JS("nan", 0, <<>>, <<>>, <<>>)
Bool(b)   == JS("boolean", IF b THEN 1 ELSE 0, <<>>, <<>>, <<>>)
Num(n)    == JS("number", n, <<>>, <<>>, <<>>)
Str(s)    == JS("string", 0, s, <<>>, <<>>)
Arr(a)    == JS("array", 0, <<>>, a, <<>>)
Obj(o)    == JS("object", 0, <<>>, <<>>, o)

\* The integer k as a JavaScript number.
IntNum(k) == Num(k * Scale)

\* typeof v
TypeOf(v) ==
  CASE v.t \in {"null", "array", "object"} -> "object"
    [] v.t = "nan" -> "number"
    [] OTHER -> v.t

\* Number.isFinite(v) for a v whose typeof is "number"
IsFinite(v) == v.t = "number"

\* The truthiness of v, as in `if (v)`, `v && ...`, `!v`.
Truthy(v) ==
  CASE v.t \in {"undefined", "null", "nan"} -> FALSE
    [] v.t = "boolean" -> v.n = 1
    [] v.t = "number" -> v.n # 0
    [] v.t = "string" -> v.s # <<>>
    [] OTHER -> TRUE

\* Array.isArray(v)
IsArray(v) == v.t = "array"

\* `k in obj`, for an obj that is an object (an array has no such named key).
HasKey(v, k) == v.t = "object" /\ k \in DOMAIN v.o

\* obj?.k and obj.k : the property k of v, undefined when there is none.
Get(v, k) == IF HasKey(v, k) THEN v.o[k] ELSE Undefined

\* value[i] of an array, counting from 0.
At(v, i) == IF v.t = "array" /\ i + 1 <= Len(v.a) THEN v.a[i + 1] ELSE Undefined

\* x ?? y
Coalesce(x, y) == IF x.t \in {"undefined", "null"} THEN y ELSE x

---------------------------------------------------------------------------
(* Strings *)

DigitChars == <<"0", "1", "2", "3", "4", "5", "6", "7", "8", "9">>

IsDigit(c) == \E i \in 1..10 : DigitChars[i] = c

DigitVal(c) == (CHOOSE i \in 1..10 : DigitChars[i] = c) - 1

WhiteSpace == {" ", "\t", "\n"}

RECURSIVE TrimStart(_)
TrimStart(s) ==
  IF s # <<>> /\ Head(s) \in WhiteSpace THEN TrimStart(Tail(s)) ELSE s

RECURSIVE TrimEnd(_)
TrimEnd(s) ==
  IF s # <<>> /\ s[Len(s)] \in WhiteSpace
  THEN TrimEnd(SubSeq(s, 1, Len(s) - 1)) ELSE s

\* s.trim()
Trim(s) == TrimEnd(TrimStart(s))

\* The index of the last character of the longest run of digits of s that
\* starts at i; i - 1 when s has no digit at i.
RECURSIVE DigitRunEnd(_, _)
DigitRunEnd(s, i) ==
  IF i <= Len(s) /\ IsDigit(s[i]) THEN DigitRunEnd(s, i + 1) ELSE i - 1

\* The value of a sequence of digits.
RECURSIVE DigitsToNat(_)
DigitsToNat(ds) ==
  IF ds = <<>> THEN 0
  ELSE DigitsToNat(SubSeq(ds, 1, Len(ds) - 1)) * 10 + DigitVal(ds[Len(ds)])

\* The digits of the natural number k.
RECURSIVE NatToDigits(_)
NatToDigits(k) ==
  IF k < 10 THEN <<DigitChars[k + 1]>>
  ELSE NatToDigits(k \div 10) \o <<DigitChars[(k % 10) + 1]>>

\* The fraction digits fs as a number of 1/Scale units (digits past
\* FracDigits are below the model's precision).
FracToScaled(fs) ==
  IF Len(fs) >= FracDigits THEN DigitsToNat(SubSeq(fs, 1, FracDigits))
  ELSE DigitsToNat(fs) * Pow10(FracDigits - Len(fs))

\* The fraction digits of the number of 1/Scale units f < Scale, without
\* trailing zeros (<<>> for 0).
RECURSIVE ScaledToFrac(_, _)
ScaledToFrac(f, width) ==
  IF f = 0 THEN <<>>
  ELSE <<DigitChars[(f \div Pow10(width - 1)) + 1]>>
       \o ScaledToFrac(f % Pow10(width - 1), width - 1)

Abs(n) == IF n < 0 THEN -n ELSE n

\* String(n) of a finite number.
NumToString(n) ==
  (IF n < 0 THEN <<"-">> ELSE <<>>)
  \o NatToDigits(Abs(n) \div Scale)
  \o (IF Abs(n) % Scale = 0 THEN <<>>
      ELSE <<".">> \o ScaledToFrac(Abs(n) % Scale, FracDigits))

\* Math.trunc(n) of a finite number: towards zero.
Trunc(n) == IF n < 0 THEN -((-n) \div Scale) * Scale ELSE (n \div Scale) * Scale

\* The elements of ss joined by the separator sep.
RECURSIVE Join(_, _)
Join(ss, sep) ==
  IF ss = <<>> THEN <<>>
  ELSE IF Len(ss) = 1 THEN ss[1]
  ELSE ss[1] \o sep \o Join(Tail(ss), sep)

\* String(v)
RECURSIVE StringOf(_)
StringOf(v) ==
  CASE v.t = "undefined" -> <<"u", "n", "d", "e", "f", "i", "n", "e", "d">>
    [] v.t = "null" -> <<"n", "u", "l", "l">>
    [] v.t = "nan" -> <<"N", "a", "N">>
    [] v.t = "boolean" ->
         IF v.n = 1 THEN <<"t", "r", "u", "e">> ELSE <<"f", "a", "l", "s", "e">>
    [] v.t = "number" -> NumToString(v.n)
    [] v.t = "string" -> v.s
    [] v.t = "array" ->
         Join([i \in 1..Len(v.a) |->
                 IF v.a[i].t \in {"undefined", "null"} THEN <<>>
                 ELSE StringOf(v.a[i])], <<",">>)
    [] OTHER -> <<"[", "o", "b", "j", "e", "c", "t", " ",
                  "O", "b", "j", "e", "c", "t", "]">>

\* String(v) returns: it throws a TypeError for an object that has a property
\* toString of its own, which in parsed JSON is no function, and for an array
\* with such an element.
RECURSIVE ConvertsToString(_)
ConvertsToString(v) ==
  CASE v.t = "object" -> ~HasKey(v, "toString")
    [] v.t = "array" -> \A i \in 1..Len(v.a) : ConvertsToString(v.a[i])
    [] OTHER -> TRUE

\* What a function has instead of a return value when a TypeError is thrown
\* in it.
TypeError == [threw |-> "TypeError"]

\* s.split("/") for the one-character separator sep.
RECURSIVE Split(_, _)
Split(s, sep) ==
  IF \E i \in 1..Len(s) : s[i] = sep
  THEN LET i == CHOOSE j \in 1..Len(s) :
                  s[j] = sep /\ \A k \in 1..(j - 1) : s[k] # sep
       IN <<SubSeq(s, 1, i - 1)>> \o Split(SubSeq(s, i + 1, Len(s)), sep)
  ELSE <<s>>

\* s.match(/\d+/): the first run of digits of s, <<>> when s has no digit
\* (a match is never empty).
FirstDigitRun(s) ==
  IF \E i \in 1..Len(s) : IsDigit(s[i])
  THEN LET i == CHOOSE j \in 1..Len(s) :
                  IsDigit(s[j]) /\ \A k \in 1..(j - 1) : ~IsDigit(s[k])
       IN SubSeq(s, i, DigitRunEnd(s, i))
  ELSE <<>>

\* Whether /-?\d+(?:\.\d+)?/ matches s at position i.
NumberMatchesAt(s, i) ==
  \/ IsDigit(s[i])
  \/ s[i] = "-" /\ i + 1 <= Len(s) /\ IsDigit(s[i + 1])

NoMatch == [found |-> FALSE, neg |-> FALSE, int |-> <<>>, frac |-> <<>>]

\* The match of /-?\d+(?:\.\d+)?/ in s that starts at i, with its digits
\* before the point at d0..d1: the fraction is part of the match when a
\* point and a digit follow.
MatchWithFraction(s, i, d0, d1) ==
  [found |-> TRUE, neg |-> s[i] = "-", int |-> SubSeq(s, d0, d1),
   frac |-> IF d1 + 2 <= Len(s) /\ s[d1 + 1] = "." /\ IsDigit(s[d1 + 2])
            THEN SubSeq(s, d1 + 2, DigitRunEnd(s, d1 + 2))
            ELSE <<>>]

MatchDigits(s, i, d0) == MatchWithFraction(s, i, d0, DigitRunEnd(s, d0))

MatchNumberAt(s, i) == MatchDigits(s, i, IF s[i] = "-" THEN i + 1 ELSE i)

\* s.match(/-?\d+(?:\.\d+)?/): the leftmost match, as [found, neg, int, frac]
\* with int and frac the digits before and after the point.
MatchNumber(s) ==
  IF \E i \in 1..Len(s) : NumberMatchesAt(s, i)
  THEN MatchNumberAt(s, CHOOSE j \in 1..Len(s) :
         NumberMatchesAt(s, j) /\ \A k \in 1..(j - 1) : ~NumberMatchesAt(s, k))
  ELSE NoMatch

\* Number.parseFloat(match[0]) of a match of MatchNumber.
ParseFloatMatch(m) ==
  LET mag == DigitsToNat(m.int) * Scale + FracToScaled(m.frac)
  IN IF m.neg THEN -mag ELSE mag

\* The integer of the digits at the head of u, negated when neg; NaN when u
\* starts with no digit.
LeadingInt(u, neg) ==
  IF DigitRunEnd(u, 1) = 0 THEN NaN
  ELSE IF neg THEN IntNum(-DigitsToNat(SubSeq(u, 1, DigitRunEnd(u, 1))))
  ELSE IntNum(DigitsToNat(SubSeq(u, 1, DigitRunEnd(u, 1))))

SignedInt(t) ==
  IF t # <<>> /\ Head(t) \in {"-", "+"} THEN LeadingInt(Tail(t), Head(t) = "-")
  ELSE LeadingInt(t, FALSE)

\* Number.parseInt(s, 10): leading white space, an optional sign, then
\* digits up to the first other character; NaN when there is no digit.
ParseInt(s) == SignedInt(TrimStart(s))

---------------------------------------------------------------------------
(* src/src/scoring.ts *)

asString(value) ==
  IF value.t \in {"null", "undefined"} THEN <<>> ELSE StringOf(value)

\* A parse that failed.
InvalidNumber == [value |-> JNull, valid |-> FALSE]

\* parseLooseNumber from the match on: Number.parseFloat(match[0]).
ParseMatched(match) ==
  IF ~match.found THEN InvalidNumber
  ELSE [value |-> Num(ParseFloatMatch(match)), valid |-> TRUE]

\* parseLooseNumber from the trimmed string s on.
ParseTrimmed(s) == IF s = <<>> THEN InvalidNumber ELSE ParseMatched(MatchNumber(s))

parseLooseNumber(value) ==
  IF TypeOf(value) = "number" /\ IsFinite(value)
  THEN [value |-> value, valid |-> TRUE]
  ELSE IF TypeOf(value) # "string" THEN InvalidNumber
  ELSE ParseTrimmed(Trim(value.s))

InvalidBloodPressure == [systolic |-> JNull, diastolic |-> JNull, valid |-> FALSE]

\* The array and the object branch of parseBloodPressure from the two parsed
\* numbers on: both valid, or the reading is invalid; both truncated.
TruncatedPair(sParsed, dParsed) ==
  IF sParsed.valid /\ dParsed.valid
  THEN [systolic |-> Num(Trunc(sParsed.value.n)),
        diastolic |-> Num(Trunc(dParsed.value.n)), valid |-> TRUE]
  ELSE InvalidBloodPressure

ParsePair(first, second) ==
  TruncatedPair(parseLooseNumber(first), parseLooseNumber(second))

\* The string branch of parseBloodPressure, from the two digit runs on.
ParseDigitRuns(sMatch, dMatch) ==
  IF sMatch = <<>> \/ dMatch = <<>> THEN InvalidBloodPressure
  ELSE [systolic |-> IntNum(DigitsToNat(sMatch)),
        diastolic |-> IntNum(DigitsToNat(dMatch)), valid |-> TRUE]

\* The sides of the string with the side that is there parsed alone.
ParseSides_partial(left, right) ==
  IF left = <<>> \/ right = <<>>
  THEN [systolic |-> IF left = <<>> THEN JNull ELSE IntNum(DigitsToNat(FirstDigitRun(left))),
        diastolic |-> IF right = <<>> THEN JNull ELSE IntNum(DigitsToNat(FirstDigitRun(right))),
        valid |-> FALSE]
  ELSE ParseDigitRuns(FirstDigitRun(left), FirstDigitRun(right))

\* ... from the two trimmed sides on.
ParseSides(left, right) ==
  IF left = <<>> \/ right = <<>> THEN InvalidBloodPressure
  ELSE ParseDigitRuns(FirstDigitRun(left), FirstDigitRun(right))

\* ... from the parts of the split on.
ParseParts(parts) ==
  IF Len(parts) # 2 THEN InvalidBloodPressure
  ELSE ParseSides(Trim(parts[1]), Trim(parts[2]))

\* ... from the trimmed string on.
ParseSlashString(s) ==
  IF s = <<>> THEN InvalidBloodPressure ELSE ParseParts(Split(s, "/"))

\* The object branch of parseBloodPressure, which is taken when one of the
\* candidates is not undefined, and the string branch otherwise.
ParseCandidates(value, candidateSystolic, candidateDiastolic) ==
  IF /\ Truthy(value) /\ TypeOf(value) = "object"
     /\ (candidateSystolic # Undefined \/ candidateDiastolic # Undefined)
  THEN ParsePair(candidateSystolic, candidateDiastolic)
  ELSE IF ~ConvertsToString(value) THEN TypeError
  ELSE ParseSlashString(Trim(asString(value)))

parseBloodPressure(value) ==
  IF Truthy(value) /\ TypeOf(value) = "object" /\ IsArray(value) /\ Len(value.a) >= 2
  THEN ParsePair(At(value, 0), At(value, 1))
  ELSE ParseCandidates(value,
         Coalesce(Coalesce(Get(value, "systolic"), Get(value, "sys")), Get(value, "s")),
         Coalesce(Coalesce(Get(value, "diastolic"), Get(value, "dia")), Get(value, "d")))

\* The stages of scoreBloodPressure with the stage-1 test ahead of the
\* stage-2 test.
bloodPressureStage_stage1First(s, d) ==
  IF s < 120 * Scale /\ d < 80 * Scale THEN [score |-> 0, valid |-> TRUE]
  ELSE IF s >= 120 * Scale /\ s <= 129 * Scale /\ d < 80 * Scale
  THEN [score |-> 1, valid |-> TRUE]
  ELSE IF (s >= 130 * Scale /\ s <= 139 * Scale) \/ (d >= 80 * Scale /\ d <= 89 * Scale)
  THEN [score |-> 2, valid |-> TRUE]
  ELSE IF s >= 140 * Scale \/ d >= 90 * Scale THEN [score |-> 3, valid |-> TRUE]
  ELSE [score |-> 0, valid |-> FALSE]

\* scoreBloodPressure from s and d on: the four stages, in the order tested.
bloodPressureStage(s, d) ==
  IF s < 120 * Scale /\ d < 80 * Scale THEN [score |-> 0, valid |-> TRUE]
  ELSE IF s >= 120 * Scale /\ s <= 129 * Scale /\ d < 80 * Scale
  THEN [score |-> 1, valid |-> TRUE]
  ELSE IF s >= 140 * Scale \/ d >= 90 * Scale THEN [score |-> 3, valid |-> TRUE]
  ELSE IF (s >= 130 * Scale /\ s <= 139 * Scale) \/ (d >= 80 * Scale /\ d <= 89 * Scale)
  THEN [score |-> 2, valid |-> TRUE]
  ELSE [score |-> 0, valid |-> FALSE]

\* scoreBloodPressure from the parsed reading on.
scoreParsedBloodPressure(bp) ==
  IF bp = TypeError THEN TypeError
  ELSE IF ~bp.valid \/ bp.systolic = JNull \/ bp.diastolic = JNull
  THEN [score |-> 0, valid |-> FALSE]
  ELSE bloodPressureStage(bp.systolic.n, bp.diastolic.n)

scoreBloodPressure(bpValue) == scoreParsedBloodPressure(parseBloodPressure(bpValue))

\* The bands of scoreTemperature with the low-fever band starting above 99.6.
temperatureBand_lowBandOpen(t, fever) ==
  IF t <= Tenths(995)
  THEN [score |-> 0, valid |-> TRUE, fever |-> fever, temp |-> Num(t)]
  ELSE IF t > Tenths(996) /\ t <= Tenths(1009)
  THEN [score |-> 1, valid |-> TRUE, fever |-> fever, temp |-> Num(t)]
  ELSE IF t >= Tenths(1010)
  THEN [score |-> 2, valid |-> TRUE, fever |-> fever, temp |-> Num(t)]
  ELSE [score |-> 0, valid |-> TRUE, fever |-> fever, temp |-> Num(t)]

\* scoreTemperature from t and fever on: the three bands and the final return.
temperatureBand(t, fever) ==
  IF t <= Tenths(995)
  THEN [score |-> 0, valid |-> TRUE, fever |-> fever, temp |-> Num(t)]
  ELSE IF t >= Tenths(996) /\ t <= Tenths(1009)
  THEN [score |-> 1, valid |-> TRUE, fever |-> fever, temp |-> Num(t)]
  ELSE IF t >= Tenths(1010)
  THEN [score |-> 2, valid |-> TRUE, fever |-> fever, temp |-> Num(t)]
  ELSE [score |-> 0, valid |-> TRUE, fever |-> fever, temp |-> Num(t)]

\* scoreTemperature giving a temperature that is no number the score of a
\* high fever.
scoreParsedTemperature_invalidScoresTwo(parsed) ==
  IF ~parsed.valid \/ parsed.value = JNull
  THEN [score |-> 2, valid |-> FALSE, fever |-> FALSE, temp |-> JNull]
  ELSE temperatureBand(parsed.value.n, parsed.value.n >= Tenths(996))

\* scoreTemperature from the parsed number on.
scoreParsedTemperature(parsed) ==
  IF ~parsed.valid \/ parsed.value = JNull
  THEN [score |-> 0, valid |-> FALSE, fever |-> FALSE, temp |-> JNull]
  ELSE temperatureBand(parsed.value.n, parsed.value.n >= Tenths(996))

scoreTemperature(tempValue) == scoreParsedTemperature(parseLooseNumber(tempValue))

\* The bands of scoreAge with the top band starting at 65.
ageBand_from65(age) ==
  IF age < 40 * Scale THEN [score |-> 0, valid |-> TRUE, age |-> Num(age)]
  ELSE IF age >= 65 * Scale THEN [score |-> 2, valid |-> TRUE, age |-> Num(age)]
  ELSE [score |-> 1, valid |-> TRUE, age |-> Num(age)]

\* The bands of scoreAge without the band under 40.
ageBand_noUnder40(age) ==
  IF age > 65 * Scale THEN [score |-> 2, valid |-> TRUE, age |-> Num(age)]
  ELSE [score |-> 1, valid |-> TRUE, age |-> Num(age)]

\* scoreAge from the truncated age on.
ageBand(age) ==
  IF age < 40 * Scale THEN [score |-> 0, valid |-> TRUE, age |-> Num(age)]
  ELSE IF age > 65 * Scale THEN [score |-> 2, valid |-> TRUE, age |-> Num(age)]
  ELSE [score |-> 1, valid |-> TRUE, age |-> Num(age)]

\* scoreAge giving an age that is no number the score of the middle band.
scoreParsedAge_invalidScoresOne(parsed) ==
  IF ~parsed.valid \/ parsed.value = JNull
  THEN [score |-> 1, valid |-> FALSE, age |-> JNull]
  ELSE ageBand(Trunc(parsed.value.n))

\* scoreAge from the parsed number on.
scoreParsedAge(parsed) ==
  IF ~parsed.valid \/ parsed.value = JNull
  THEN [score |-> 0, valid |-> FALSE, age |-> JNull]
  ELSE ageBand(Trunc(parsed.value.n))

scoreAge(ageValue) == scoreParsedAge(parseLooseNumber(ageValue))

\* The patient id of a record that has none.
NoId == JNull

\* The first of the candidates cs that is a string with something in it
\* besides white space, trimmed; null when there is none.
RECURSIVE FirstUsableId(_)
FirstUsableId(cs) ==
  IF cs = <<>> THEN NoId
  ELSE IF TypeOf(Head(cs)) = "string" /\ Trim(Head(cs).s) # <<>>
  THEN Str(Trim(Head(cs).s))
  ELSE FirstUsableId(Tail(cs))

\* getPatientId with the candidates tried from the last to the first.
getPatientId_lastFirst(p) ==
  FirstUsableId(<<Get(p, "patientID"), Get(p, "id"),
                  Get(p, "patientId"), Get(p, "patient_id")>>)

getPatientId(p) ==
  FirstUsableId(<<Get(p, "patient_id"), Get(p, "patientId"),
                  Get(p, "id"), Get(p, "patientID")>>)

\* pickField passing over an alias whose value is null or undefined.
RECURSIVE pickField_skipNull(_, _)
pickField_skipNull(p, keys) ==
  IF keys = <<>> THEN Undefined
  ELSE IF Truthy(p) /\ TypeOf(p) = "object" /\ HasKey(p, Head(keys))
          /\ p.o[Head(keys)].t \notin {"null", "undefined"}
  THEN p.o[Head(keys)]
  ELSE pickField_skipNull(p, Tail(keys))

RECURSIVE pickField(_, _)
pickField(p, keys) ==
  IF keys = <<>> THEN Undefined
  ELSE IF Truthy(p) /\ TypeOf(p) = "object" /\ HasKey(p, Head(keys))
  THEN p.o[Head(keys)]
  ELSE pickField(p, Tail(keys))

BpKeys == <<"blood_pressure", "bloodPressure", "bp", "bloodPressureReading">>
TempKeys == <<"temperature", "temp", "temp_f", "temperature_f", "temperatureF", "tempF">>
AgeKeys == <<"age", "Age", "patient_age", "patientAge">>

extractRiskInputs(p) ==
  [bpRaw |-> pickField(p, BpKeys),
   tempRaw |-> pickField(p, TempKeys),
   ageRaw |-> pickField(p, AgeKeys)]

\* What computePatientRisk returns for a record without a usable id.
NullRisk == [null |-> TRUE]

\* computePatientRisk with high risk starting above a total of 4.
riskOf_above4(patientId, bp, temp, age) ==
  [patientId |-> patientId.s,
   scores |-> [bp |-> bp.score, temp |-> temp.score, age |-> age.score,
               total |-> bp.score + temp.score + age.score],
   flags |-> [bpValid |-> bp.valid, tempValid |-> temp.valid, ageValid |-> age.valid,
              fever |-> IF temp.valid THEN temp.fever ELSE FALSE,
              dataQualityIssue |-> ~bp.valid \/ ~temp.valid \/ ~age.valid,
              highRisk |-> bp.score + temp.score + age.score > 4]]

\* computePatientRisk from the id and the three category scores on.
riskOf(patientId, bp, temp, age) ==
  [patientId |-> patientId.s,
   scores |-> [bp |-> bp.score, temp |-> temp.score, age |-> age.score,
               total |-> bp.score + temp.score + age.score],
   flags |-> [bpValid |-> bp.valid, tempValid |-> temp.valid, ageValid |-> age.valid,
              fever |-> IF temp.valid THEN temp.fever ELSE FALSE,
              dataQualityIssue |-> ~bp.valid \/ ~temp.valid \/ ~age.valid,
              highRisk |-> bp.score + temp.score + age.score >= 4]]

\* computePatientRisk scoring a record without an id under the empty id.
riskOfInputs_keepNoId(patientId, in) ==
  IF scoreBloodPressure(in.bpRaw) = TypeError THEN TypeError
  ELSE
  riskOf(IF patientId = NoId THEN Str(<<>>) ELSE patientId,
         scoreBloodPressure(in.bpRaw), scoreTemperature(in.tempRaw), scoreAge(in.ageRaw))

\* computePatientRisk from the id and the raw inputs on.
riskOfInputs(patientId, in) ==
  IF patientId = NoId THEN NullRisk
  ELSE IF scoreBloodPressure(in.bpRaw) = TypeError THEN TypeError
  ELSE riskOf(patientId, scoreBloodPressure(in.bpRaw),
              scoreTemperature(in.tempRaw), scoreAge(in.ageRaw))

computePatientRisk(p) == riskOfInputs(getPatientId(p), extractRiskInputs(p))

---------------------------------------------------------------------------
(* src/src/api.ts: the transport *)

\* The factors, in per cent, that jitter may draw: Math.random() * 0.3 + 0.85
\* lies in [0.85, 1.15).
JitterPercents == {85, 100, 114}

\* The values jitter(ms) may return: Math.round(ms * rand).
jitter(ms) == {(ms * f + 50) \div 100 : f \in JitterPercents}

\* The cap of the exponential backoff.
BackoffCapMs == 8000

\* A response of fetchImpl: threw is a rejected promise (time-out, network
\* error, abort), retryAfter is res.headers.get("retry-after") and body is
\* what readJsonResponse made of the text.
Response(status, retryAfter, body) ==
  [threw |-> FALSE, status |-> status, retryAfter |-> retryAfter, body |-> body]

\* fetchImpl rejecting with the error named cause.
TransportFailure(cause) ==
  [threw |-> TRUE, status |-> 0, retryAfter |-> JNull, body |-> Str(cause)]

\* res.ok
Ok(r) == ~r.threw /\ r.status \in 200..299

\* retryAfterSecondsFromHeader
retryAfterSecondsFromHeader(r) ==
  IF Truthy(r.retryAfter) THEN ParseInt(r.retryAfter.s) ELSE NaN

\* retryAfterSecondsFromBody
retryAfterSecondsFromBody(r) ==
  IF Truthy(r.body) /\ TypeOf(r.body) = "object"
  THEN ParseInt(StringOf(
         Coalesce(Coalesce(Coalesce(Get(r.body, "retry_after"),
                                    Get(r.body, "retryAfter")),
                           Get(r.body, "retryAfterSeconds")),
                  Str(<<>>))))
  ELSE NaN

\* The hint of the body ahead of the hint of the header.
FirstFinite_bodyFirst(fromHeader, fromBody) ==
  IF IsFinite(fromBody) THEN fromBody
  ELSE IF IsFinite(fromHeader) THEN fromHeader
  ELSE NaN

\* The first of the two hints that is a finite number, else NaN.
FirstFinite(fromHeader, fromBody) ==
  IF IsFinite(fromHeader) THEN fromHeader
  ELSE IF IsFinite(fromBody) THEN fromBody
  ELSE NaN

\* The retry hint of a 429 response, in seconds: a number, or NaN.
retryAfterSeconds(r) ==
  FirstFinite(retryAfterSecondsFromHeader(r), retryAfterSecondsFromBody(r))

\* waitMs of a 429 response whose hint is hint.
waitMsOf(hint, backoff) ==
  IF IsFinite(hint) THEN (Max(hint.n, 0) \div Scale) * 1000 ELSE backoff

\* The wait of a 429 response before jitter: Math.max(waitMs, backoffMs).
rateLimitWaitMs(r, backoff) == Max(waitMsOf(retryAfterSeconds(r), backoff), backoff)

\* The error of requestJson for a response without the retry hint.
HttpError_noHint(r) == [kind |-> "http", status |-> r.status, hint |-> NaN, body |-> r.body]

\* The errors requestJson throws.
HttpError(r) ==
  [kind |-> "http", status |-> r.status,
   hint |-> IF r.status = 429 THEN retryAfterSeconds(r) ELSE NaN, body |-> r.body]

\* What the catch block has caught when fetchImpl rejected with r: the error
\* of fetchImpl itself.
TransportError(r) == [kind |-> "transport", status |-> 0, hint |-> NaN, body |-> r.body]

---------------------------------------------------------------------------
(* src/src/api.ts: the pages of patients *)

\* The whole number a JavaScript number stands for.
IntOf(v) == v.n \div Scale

\* Math.min(Math.max(v, lo), hi)
Clamp(v, lo, hi) == Min(Max(v, lo), hi)

EmptyData == Obj([data |-> Arr(<<>>)])

\* What ApiClient.getPatientsPage returns when requestJson returns body.
getPatientsPage(body) ==
  IF Truthy(body) /\ TypeOf(body) = "object" THEN body
  ELSE IF IsArray(body) THEN Obj([data |-> body])
  ELSE EmptyData

\* x && typeof x === "object"
IsObjectLike(x) == Truthy(x) /\ TypeOf(x) = "object"

\* r && typeof r === "object" ? r.k : undefined
PropertyOf(r, k) == IF IsObjectLike(r) THEN Get(r, k) ELSE Undefined

\* array.filter((x) => x && typeof x === "object")
ObjectsOf(array) == SelectSeq(array.a, IsObjectLike)

PatientsOr(maybePatients, otherwise) ==
  IF IsArray(maybePatients) THEN ObjectsOf(maybePatients) ELSE otherwise

RootPatients(r) == PatientsOr(PropertyOf(r, "patients"), <<>>)

\* normalizePatientsData passing over an array that is empty.
NormalizedFrom_firstNonEmpty(r, d) ==
  IF IsArray(d) /\ d.a # <<>> THEN ObjectsOf(d)
  ELSE IF IsArray(PropertyOf(d, "patients")) /\ PropertyOf(d, "patients").a # <<>>
  THEN ObjectsOf(PropertyOf(d, "patients"))
  ELSE RootPatients(r)

NormalizedFrom(r, d) ==
  IF IsArray(d) THEN ObjectsOf(d)
  ELSE PatientsOr(PropertyOf(d, "patients"), RootPatients(r))

normalizePatientsData(resp) == NormalizedFrom(resp, PropertyOf(resp, "data"))

\* The first candidate that is a string with something in it besides white
\* space, as it is, not trimmed.
RECURSIVE FirstUsableId_untrimmed(_)
FirstUsableId_untrimmed(cs) ==
  IF cs = <<>> THEN NoId
  ELSE IF TypeOf(Head(cs)) = "string" /\ Trim(Head(cs).s) # <<>>
  THEN Head(cs)
  ELSE FirstUsableId_untrimmed(Tail(cs))

\* getPatientIdFromRecord returning the id without trimming it.
getPatientIdFromRecord_untrimmed(p) ==
  FirstUsableId_untrimmed(<<Get(p, "patient_id"), Get(p, "patientId"),
                            Get(p, "id"), Get(p, "patientID")>>)

getPatientIdFromRecord(p) ==
  FirstUsableId(<<Get(p, "patient_id"), Get(p, "patientId"),
                  Get(p, "id"), Get(p, "patientID")>>)

HasId(p) == getPatientIdFromRecord(p) # NoId

HasNoId(p) == getPatientIdFromRecord(p) = NoId

\* The digits and letters of identifiers in the order of the collation that
\* a.localeCompare(b) follows: digits before letters, and a letter at the
\* place of the alphabet whatever its case.
CollationOrder ==
  <<"0", "1", "2", "3", "4", "5", "6", "7", "8", "9",
    "a", "b", "c", "d", "e", "f", "g", "h", "i", "j", "k", "l", "m",
    "n", "o", "p", "q", "r", "s", "t", "u", "v", "w", "x", "y", "z">>

Capitals ==
  <<"A", "B", "C", "D", "E", "F", "G", "H", "I", "J", "K", "L", "M",
    "N", "O", "P", "Q", "R", "S", "T", "U", "V", "W", "X", "Y", "Z">>

IsCapital(c) == \E i \in DOMAIN Capitals : Capitals[i] = c

\* The place of c in the collation, the same for a letter and its capital.
CollationRank(c) ==
  IF \E i \in DOMAIN CollationOrder : CollationOrder[i] = c
  THEN CHOOSE i \in DOMAIN CollationOrder : CollationOrder[i] = c
  ELSE IF IsCapital(c) THEN 10 + (CHOOSE i \in DOMAIN Capitals : Capitals[i] = c)
  ELSE 0

\* The first level of the collation: character by character, case ignored.
RECURSIVE PrimaryCompare(_, _)
PrimaryCompare(a, b) ==
  IF a = <<>> /\ b = <<>> THEN 0
  ELSE IF a = <<>> THEN -1
  ELSE IF b = <<>> THEN 1
  ELSE IF CollationRank(Head(a)) # CollationRank(Head(b))
  THEN CollationRank(Head(a)) - CollationRank(Head(b))
  ELSE PrimaryCompare(Tail(a), Tail(b))

\* The level that decides between strings equal but for case: at the first
\* difference the small letter comes first.
RECURSIVE CaseCompare(_, _)
CaseCompare(a, b) ==
  IF a = <<>> \/ b = <<>> THEN 0
  ELSE IF IsCapital(Head(a)) = IsCapital(Head(b)) THEN CaseCompare(Tail(a), Tail(b))
  ELSE IF IsCapital(Head(b)) THEN -1
  ELSE 1

\* a.localeCompare(b): negative, zero or positive.
localeCompare(a, b) ==
  IF PrimaryCompare(a, b) # 0 THEN PrimaryCompare(a, b) ELSE CaseCompare(a, b)

\* The string x put into the sorted list before the first element that
\* does not compare below it.
RECURSIVE InsertString(_, _)
InsertString(x, sorted) ==
  IF sorted = <<>> THEN <<x>>
  ELSE IF localeCompare(x, Head(sorted)) <= 0 THEN <<x>> \o sorted
  ELSE <<Head(sorted)>> \o InsertString(x, Tail(sorted))

\* list.sort((a, b) => a.localeCompare(b)), a stable sort.
RECURSIVE SortStrings(_)
SortStrings(list) ==
  IF list = <<>> THEN <<>>
  ELSE InsertString(Head(list), SortStrings(Tail(list)))

RECURSIVE InsertNumber(_, _)
InsertNumber(x, sorted) ==
  IF sorted = <<>> THEN <<x>>
  ELSE IF x - Head(sorted) <= 0 THEN <<x>> \o sorted
  ELSE <<Head(sorted)>> \o InsertNumber(x, Tail(sorted))

\* list.sort((a, b) => a - b)
RECURSIVE SortNumbers(_)
SortNumbers(list) ==
  IF list = <<>> THEN <<>>
  ELSE InsertNumber(Head(list), SortNumbers(Tail(list)))

\* Array.from(new Set(list)): the first occurrence of each element, in order.
RECURSIVE Distinct(_, _)
Distinct(list, seen) ==
  IF list = <<>> THEN <<>>
  ELSE IF Head(list) \in seen THEN Distinct(Tail(list), seen)
  ELSE <<Head(list)>> \o Distinct(Tail(list), seen \cup {Head(list)})

\* The values of byId in insertion order: the first record of each id.
RECURSIVE FirstById(_, _)
FirstById(patients, ids) ==
  IF patients = <<>> THEN <<>>
  ELSE IF HasNoId(Head(patients)) THEN FirstById(Tail(patients), ids)
  ELSE IF getPatientIdFromRecord(Head(patients)).s \in ids
  THEN FirstById(Tail(patients), ids)
  ELSE <<Head(patients)>>
         \o FirstById(Tail(patients), ids \cup {getPatientIdFromRecord(Head(patients)).s})

\* The keys of byId in insertion order.
KeysOf(byId) == [i \in DOMAIN byId |-> getPatientIdFromRecord(byId[i]).s]

\* byId.get(id)
ValueOf(byId, id) ==
  byId[CHOOSE i \in DOMAIN byId : getPatientIdFromRecord(byId[i]).s = id]

ValuesInOrder(byId, keys) == [i \in DOMAIN keys |-> ValueOf(byId, keys[i])]

\* dedupeByPatientId without the sort: the records in the order of the Map.
Deduped_unsorted(byId, noId) ==
  [patients |-> byId \o noId, uniquePatientIds |-> Len(byId)]

Deduped(byId, noId) ==
  [patients |-> ValuesInOrder(byId, SortStrings(KeysOf(byId))) \o noId,
   uniquePatientIds |-> Len(byId)]

\* dedupeByPatientId without the Map: every record kept and counted.
dedupeByPatientId_keepAll(patients) ==
  [patients |-> patients, uniquePatientIds |-> Len(patients)]

dedupeByPatientId(patients) ==
  Deduped(FirstById(patients, {}), SelectSeq(patients, HasNoId))

FiniteOrNull(n) == IF IsFinite(n) THEN n ELSE JNull

parseFiniteInt(value) ==
  IF TypeOf(value) = "number" /\ IsFinite(value) THEN Num(Trunc(value.n))
  ELSE IF TypeOf(value) = "string" THEN FiniteOrNull(ParseInt(Trim(value.s)))
  ELSE JNull

\* resp?.pagination?.k
Pagination(resp, k) == Get(Get(resp, "pagination"), k)

\* learnPagination with the total of the last response that has one.
LearnedTotal_lastWins(current, parsed) ==
  IF parsed # JNull THEN Num(Max(parsed.n, 0)) ELSE current

\* learnPagination: expectedTotal after a response whose total parses as parsed.
LearnedTotal(current, parsed) ==
  IF current = JNull /\ parsed # JNull THEN Num(Max(parsed.n, 0)) ELSE current

\* learnPagination without the upper clamp of totalPages.
LearnedPages_unclamped(current, parsed, bound) ==
  IF current = JNull /\ parsed # JNull THEN Num(Max(parsed.n, Scale)) ELSE current

\* learnPagination: totalPages after a response whose totalPages parses as parsed.
LearnedPages(current, parsed, bound) ==
  IF current = JNull /\ parsed # JNull
  THEN Num(Min(Max(parsed.n, Scale), bound * Scale))
  ELSE current

\* countNewIds taking no record to have an id.
IdsIn_none(patients) == {}

\* The ids of the records of a batch.
IdsIn(patients) ==
  {getPatientIdFromRecord(patients[i]).s : i \in {j \in DOMAIN patients : HasId(patients[j])}}

\* countNewIds: what it returns when seenIds is seen.
countNewIds(patients, seen) == Cardinality(IdsIn(patients) \ seen)

DefaultMaxPageAttempts == 5
MaxPageAttemptsCap == 12
DefaultMaxTotalPages == 200
MaxTotalPagesCap == 500
maxNoNewIdPages == 5
DefaultExpectedEnd == 10
RecoveryRounds == 2
DefaultSleepBetweenAttemptsMs == 250
MaxSleepBetweenAttemptsMs == 5000

InRange(p, tp) == tp = JNull \/ (p >= 1 /\ p <= IntOf(tp))

RECURSIVE WithinRange(_, _)
WithinRange(pages, tp) ==
  IF pages = <<>> THEN <<>>
  ELSE IF InRange(Head(pages), tp) THEN <<Head(pages)>> \o WithinRange(Tail(pages), tp)
  ELSE WithinRange(Tail(pages), tp)

missingWithinExpectedRange(pages, tp) == WithinRange(Distinct(pages, {}), tp)

\* The verdict with the two cases in the other order.
completeOf_pagesFirst(total, tp, unique, fetched, missing) ==
  IF tp # JNull THEN fetched >= IntOf(tp) /\ missing = <<>>
  ELSE IF total # JNull THEN unique >= IntOf(total)
  ELSE FALSE

\* The verdict with the pages fetched alone deciding the second case.
completeOf_missingAllowed(total, tp, unique, fetched, missing) ==
  IF total # JNull THEN unique >= IntOf(total)
  ELSE IF tp # JNull THEN fetched >= IntOf(tp)
  ELSE FALSE

\* const complete = ...
completeOf(total, tp, unique, fetched, missing) ==
  IF total # JNull THEN unique >= IntOf(total)
  ELSE IF tp # JNull THEN fetched >= IntOf(tp) /\ missing = <<>>
  ELSE FALSE

metaOf(total, tp, missing, unique, fetched) ==
  [expectedTotal |-> total,
   totalPages |-> tp,
   missingPages |-> SortNumbers(missing),
   uniquePatientIds |-> unique,
   complete |-> completeOf(total, tp, unique, fetched, missing)]

NoMeta == metaOf(JNull, JNull, <<>>, 0, 0)

\* getAllPatientsWithMeta returns: the local variables s with the result.
Returned(s, deduped, missing) ==
  [s EXCEPT !.fpc = "returned",
            !.patients = deduped.patients,
            !.meta = metaOf(s.expectedTotal, s.totalPages, missing,
                            deduped.uniquePatientIds, s.maxPageFetched)]

Finish(s) ==
  Returned(s, dedupeByPatientId(s.out),
           missingWithinExpectedRange(s.missingPages, s.totalPages))

\* The end of the recovery passes.
RecoveryOver(s) ==
  Finish([s EXCEPT !.completeByHeuristic = IF s.missingPages = <<>> THEN TRUE ELSE @])

\* The recovery passes from the missing page at missingIndex on, up to the
\* next page they fetch.
RECURSIVE Recover(_)
Recover(s) ==
  IF s.missingIndex <= Len(s.missingPages)
  THEN IF s.missingPages[s.missingIndex] > IntOf(s.totalPages)
       THEN Recover([s EXCEPT !.missingIndex = @ + 1])
       ELSE [s EXCEPT !.fpc = "recover", !.pageAttempt = 1]
  ELSE IF s.round + 1 < RecoveryRounds /\ s.stillMissing # <<>>
       THEN Recover([s EXCEPT !.missingPages = s.stillMissing, !.stillMissing = <<>>,
                              !.round = @ + 1, !.missingIndex = 1])
       ELSE RecoveryOver([s EXCEPT !.missingPages = s.stillMissing, !.round = @ + 1])

\* After the scan loop.
AfterScan(s) ==
  IF s.totalPages # JNull /\ s.missingPages # <<>>
  THEN Recover([s EXCEPT !.round = 0, !.missingIndex = 1, !.stillMissing = <<>>])
  ELSE Finish(s)

\* The scan loop without the page condition of its early stop.
pastExpectedEnd_always(s) == TRUE

pastExpectedEnd(s) ==
  IF s.totalPages # JNull THEN s.page >= IntOf(s.totalPages)
  ELSE s.page >= DefaultExpectedEnd

\* The end of one pass of the scan loop.
ScanOn(s) ==
  IF s.noNewIdPagesInARow >= maxNoNewIdPages /\ pastExpectedEnd(s)
  THEN AfterScan([s EXCEPT !.completeByHeuristic = TRUE])
  ELSE IF s.guard + 1 < s.maxTotalPages
  THEN [s EXCEPT !.page = @ + 1, !.guard = @ + 1, !.pageAttempt = 1]
  ELSE AfterScan([s EXCEPT !.page = @ + 1, !.guard = @ + 1])

\* The body of the scan loop once fetchNormalizedPage(page) has returned.
ScanPageDone(s, batch, resp) ==
  ScanOn([s EXCEPT
    !.maxPageFetched = Max(@, s.page),
    !.expectedTotal = LearnedTotal(@, parseFiniteInt(Pagination(resp, "total"))),
    !.totalPages =
      LearnedPages(@, parseFiniteInt(Pagination(resp, "totalPages")), s.maxTotalPages),
    !.missingPages = IF batch = <<>> THEN Append(@, s.page) ELSE @,
    !.out = @ \o batch,
    !.seenIds = @ \cup IdsIn(batch),
    !.noNewIdPagesInARow = IF countNewIds(batch, s.seenIds) = 0 THEN @ + 1 ELSE 0])

\* The first page put on the list of missing pages whatever it gave.
FirstPageDone_alwaysMissing(s, batch, resp) ==
  [s EXCEPT
    !.maxPageFetched = Max(@, 1),
    !.missingPages = Append(@, 1),
    !.out = @ \o batch,
    !.expectedTotal = LearnedTotal(@, parseFiniteInt(Pagination(resp, "total"))),
    !.totalPages =
      LearnedPages(@, parseFiniteInt(Pagination(resp, "totalPages")), s.maxTotalPages),
    !.seenIds = @ \cup IdsIn(batch),
    !.noNewIdPagesInARow = IF batch = <<>> THEN 1 ELSE 0,
    !.page = 2,
    !.guard = 0,
    !.pageAttempt = 1,
    !.fpc = "scan"]

\* The first page, once fetchNormalizedPage(1) has returned.
FirstPageDone(s, batch, resp) ==
  [s EXCEPT
    !.maxPageFetched = Max(@, 1),
    !.missingPages = IF batch = <<>> THEN Append(@, 1) ELSE @,
    !.out = @ \o batch,
    !.expectedTotal = LearnedTotal(@, parseFiniteInt(Pagination(resp, "total"))),
    !.totalPages =
      LearnedPages(@, parseFiniteInt(Pagination(resp, "totalPages")), s.maxTotalPages),
    !.seenIds = @ \cup IdsIn(batch),
    !.noNewIdPagesInARow = IF batch = <<>> THEN 1 ELSE 0,
    !.page = 2,
    !.guard = 0,
    !.pageAttempt = 1,
    !.fpc = "scan"]

\* The recovery of a page that keeps the page on the list whatever it gave.
RecoveryPageDone_staysMissing(s, batch) ==
  Recover([s EXCEPT
    !.maxPageFetched = Max(@, s.missingPages[s.missingIndex]),
    !.stillMissing = Append(@, s.missingPages[s.missingIndex]),
    !.out = @ \o batch,
    !.seenIds = @ \cup IdsIn(batch),
    !.missingIndex = @ + 1])

\* A missing page, once fetchNormalizedPage(missingPage) has returned.
RecoveryPageDone(s, batch) ==
  Recover([s EXCEPT
    !.maxPageFetched = Max(@, s.missingPages[s.missingIndex]),
    !.stillMissing = IF batch = <<>> THEN Append(@, s.missingPages[s.missingIndex]) ELSE @,
    !.out = @ \o batch,
    !.seenIds = @ \cup IdsIn(batch),
    !.missingIndex = @ + 1])

PageDone(s, batch, resp) ==
  IF s.fpc = "first" THEN FirstPageDone(s, batch, resp)
  ELSE IF s.fpc = "scan" THEN ScanPageDone(s, batch, resp)
  ELSE RecoveryPageDone(s, batch)

\* fetchNormalizedPage without its loop: the page is what the first attempt gave.
Attempted_once(s, batch, resp) == PageDone(s, batch, resp)

\* fetchNormalizedPage after an attempt that gave the batch.
Attempted(s, batch, resp) ==
  IF batch # <<>> \/ s.pageAttempt + 1 > s.maxPageAttempts
  THEN PageDone(s, batch, resp)
  ELSE [s EXCEPT !.pageAttempt = @ + 1]

\* fetchNormalizedPage after client.getPatientsPage has returned resp.
fetchNormalizedPage(s, resp) == Attempted(s, normalizePatientsData(resp), resp)

---------------------------------------------------------------------------
(* src/src/alerts.ts *)

\* uniqSorted without the Set: the ids sorted, repetitions kept.
uniqSorted_noDedupe(ids) == SortStrings(ids)

uniqSorted(ids) == SortStrings(Distinct(ids, {}))

PatientIds(computed) == [i \in DOMAIN computed |-> computed[i].patientId]

IsHighRisk(p) == p.flags.highRisk
HasFever(p) == p.flags.fever
HasDataQualityIssue(p) == p.flags.dataQualityIssue

\* buildAlertLists with lists that exclude one another: a high-risk patient
\* is in no other list, a fever patient not among the data quality issues.
FeverOnly(p) == p.flags.fever /\ ~p.flags.highRisk
DataQualityIssueOnly(p) == p.flags.dataQualityIssue /\ ~p.flags.highRisk /\ ~p.flags.fever

buildAlertLists_exclusive(computed) ==
  [high_risk_patients |-> uniqSorted(PatientIds(SelectSeq(computed, IsHighRisk))),
   fever_patients |-> uniqSorted(PatientIds(SelectSeq(computed, FeverOnly))),
   data_quality_issues |-> uniqSorted(PatientIds(SelectSeq(computed, DataQualityIssueOnly)))]

buildAlertLists(computed) ==
  [high_risk_patients |-> uniqSorted(PatientIds(SelectSeq(computed, IsHighRisk))),
   fever_patients |-> uniqSorted(PatientIds(SelectSeq(computed, HasFever))),
   data_quality_issues |-> uniqSorted(PatientIds(SelectSeq(computed, HasDataQualityIssue)))]

NoAlerts == buildAlertLists(<<>>)

\* The scoring loop of runCli and of computeAlerts: the results that are not null.
RECURSIVE Computed(_)
Computed(patients) ==
  IF patients = <<>> THEN <<>>
  ELSE IF computePatientRisk(Head(patients)) = NullRisk THEN Computed(Tail(patients))
  ELSE <<computePatientRisk(Head(patients))>> \o Computed(Tail(patients))

\* The scoring loop of runCli: the number of results that are null.
Dropped(patients) ==
  Cardinality({i \in DOMAIN patients : computePatientRisk(patients[i]) = NullRisk})

---------------------------------------------------------------------------
(* State *)

VARIABLES
  fn,      \* the scoring function under call
  arg,     \* its argument, a JavaScript value
  ret,     \* what it returned
  called   \* whether it has returned

VARIABLES
  maxRetries,  \* ApiClient.maxRetries
  minDelayMs,  \* ApiClient.minDelayMs
  attempt,     \* requestJson: attempt
  backoffMs,   \* requestJson: backoffMs
  rpc,         \* requestJson: where it is: "idle", "fetch", "sleep", "returned", "threw"
  res,         \* requestJson: the response of the last call of fetchImpl
  outcome,     \* requestJson: the response returned or the error thrown
  calls,       \* the number of calls of fetchImpl so far
  sleeps,      \* the number of calls of sleepImpl so far
  sleptMs      \* the duration passed to the last call of sleepImpl

VARIABLES
  maxPageAttempts,      \* getAllPatientsWithMeta: the clamped option
  maxTotalPages,        \* the clamped option
  fpc,                  \* where it is: "idle", "first", "scan", "recover", "returned", "threw"
  page,                 \* the page of the scan loop
  pageAttempt,          \* fetchNormalizedPage: attempt
  out,                  \* the records accumulated
  missingPages,
  seenIds,
  completeByHeuristic,
  maxPageFetched,
  expectedTotal,        \* null or a number
  totalPages,           \* null or a number
  noNewIdPagesInARow,
  guard,                \* the counter of the scan loop
  round,                \* the counter of the recovery passes
  stillMissing,
  missingIndex,         \* the place in missingPages of the recovery pass
  patients,             \* the patients returned
  meta                  \* the meta returned

VARIABLES
  inFlight,  \* the pages of the calls of client.getPatientsPage that have not returned
  rejection,  \* the error getAllPatientsWithMeta has thrown
  gaveRecords, \* history: the pages for which fetchNormalizedPage has returned records
  sleepBetweenAttemptsMs,  \* getAllPatientsWithMeta: the clamped option
  attemptSleptMs,  \* fetchNormalizedPage: the duration of the sleep after its last attempt
  rowsGiven,  \* history: the rows of the batches fetchNormalizedPage has returned
  pagesRequested  \* history: the pages client.getPatientsPage has been called with

VARIABLES
  entry,            \* who calls the fetch: "none", "library", "cli", "server"
  shouldSubmit,     \* runCli: --submit; POST /submit
  requireComplete,  \* runCli: --requireComplete or --verify; computeAlerts: opts.requireComplete
  run,              \* the caller: "idle", "fetching", "refused", "reported", "failed"
  computed,         \* the ComputedPatientRisk of the patients
  dropped,          \* runCli: the number of records without a patient id
  alerts,           \* the alert lists built
  posts             \* the number of POSTs to /submit-assessment

scoreVars == <<fn, arg, ret, called>>
requestVars ==
  <<maxRetries, minDelayMs, attempt, backoffMs, rpc, res, outcome, calls, sleeps, sleptMs>>
fetchVars ==
  <<maxPageAttempts, maxTotalPages, fpc, page, pageAttempt, out, missingPages, seenIds,
    completeByHeuristic, maxPageFetched, expectedTotal, totalPages, noNewIdPagesInARow,
    guard, round, stillMissing, missingIndex, patients, meta>>
transportVars ==
  <<inFlight, rejection, gaveRecords, sleepBetweenAttemptsMs, attemptSleptMs, rowsGiven,
    pagesRequested>>
callerVars == <<entry, shouldSubmit, requireComplete, run, computed, dropped, alerts, posts>>

vars == <<scoreVars, requestVars, fetchVars, transportVars, callerVars>>

\* The value of ret before the call returns.
NoReturn == [pending |-> TRUE]

---------------------------------------------------------------------------
(* Inputs of the scoring functions *)

\* Ages 0..MaxAge are given as numbers and as strings.
MaxAge == 70

\* Temperatures from 98 to 99 + TempSpan degrees are given at every value the
\* model's precision has.
TempSpan == 3

\* Systolic readings within BpSpan of 120 and 140, diastolic readings within
\* BpSpan of 80 and 90, are given in every accepted shape.
BpSpan == 3

\* Values no parser accepts.
Garbage ==
  {Undefined, JNull, NaN, Bool(TRUE), Bool(FALSE), Str(<<>>), Str(<<" ">>),
   Str(<<"u", "n", "k", "n", "o", "w", "n">>),
   Str(<<"T", "E", "M", "P", "_", "E", "R", "R", "O", "R">>),
   Str(<<"N", "/", "A">>), Arr(<<>>), Obj(<<>>)}

AgeInputs ==
  {IntNum(k) : k \in 0..MaxAge}
  \cup {Str(NatToDigits(k)) : k \in 0..MaxAge}
  \cup {Num(k * Scale + Scale \div 2) : k \in {39, 40, 65, 66}}
  \cup {IntNum(-1), Num(-(Scale \div 2)), Num(-(40 * Scale)),
        Str(<<" ", "3", "9", " ">>), Str(<<"6", "6", " ", "y", "r", "s">>),
        Str(<<"6", "5", ".", "9">>), Str(<<"-", "7", "0">>),
        Arr(<<IntNum(70)>>)}
  \cup Garbage

TempNumbers == (98 * Scale)..((99 + TempSpan) * Scale)

TempInputs ==
  {Num(n) : n \in TempNumbers}
  \cup {Str(NumToString(n)) : n \in TempNumbers}
  \cup {Str(NumToString(n) \o <<"F">>) : n \in {Tenths(995), Tenths(996), Tenths(1010)}}
  \cup {IntNum(101), IntNum(0), IntNum(-1), Str(<<" ", "1", "0", "1", " ">>),
        Arr(<<Num(Tenths(1010))>>)}
  \cup Garbage

SysRange == (120 - BpSpan)..(140 + BpSpan)
DiaRange == (80 - BpSpan)..(90 + BpSpan)

SlashString(s, d) == Str(NatToDigits(s) \o <<"/">> \o NatToDigits(d))

BpInputs ==
  {SlashString(s, d) : s \in SysRange, d \in DiaRange}
  \cup {Arr(<<IntNum(s), IntNum(d)>>) : s \in SysRange, d \in DiaRange}
  \cup {Obj([systolic |-> IntNum(s), diastolic |-> IntNum(d)]) :
          s \in SysRange, d \in DiaRange}
  \cup {SlashString(150, 85), SlashString(135, 95), SlashString(0, 0),
        Str(<<"1", "5", "0", "/">>), Str(<<"/", "9", "0">>),
        Str(<<"1", "2", "0", "/", "8", "0", "/", "7", "0">>),
        Str(<<" ", "1", "2", "0", " ", "/", " ", "8", "0", " ">>),
        Str(<<"1", "3", "5", "/", "8", "5", "m", "m", "H", "g">>),
        Str(<<"-", "5", "/", "8", "0">>),
        Arr(<<IntNum(-5), IntNum(80)>>),
        Arr(<<Num(120 * Scale + Scale \div 2), Num(79 * Scale + Scale \div 2)>>),
        Arr(<<Str(<<"1", "4", "0">>), Str(<<"9", "0">>)>>),
        Arr(<<IntNum(130), IntNum(85), IntNum(1)>>),
        Arr(<<IntNum(130), JNull>>),
        Arr(<<SlashString(120, 80)>>),
        Arr(<<IntNum(120)>>),
        Obj([sys |-> IntNum(140), dia |-> IntNum(90)]),
        Obj([s |-> IntNum(125), d |-> IntNum(79)]),
        Obj([systolic |-> JNull, sys |-> IntNum(131), diastolic |-> IntNum(79)]),
        Obj([systolic |-> IntNum(150)]),
        Obj([systolic |-> JNull]),
        Obj([reading |-> SlashString(120, 80)]),
        IntNum(120)}
  \cup Garbage

\* The ways a record carries, or fails to carry, a patient id.
IdFields ==
  {<<>>,
   [patient_id |-> Str(<<"P", "1">>)],
   [patient_id |-> Str(<<" ", "P", "1", " ">>)],
   [patient_id |-> Str(<<>>), patientId |-> Str(<<"P", "2">>)],
   [patient_id |-> IntNum(7), id |-> Str(<<"P", "3">>)],
   [patientID |-> Str(<<"P", "4">>)],
   [patient_id |-> Str(<<" ">>), patientId |-> JNull, id |-> IntNum(5),
    patientID |-> Str(<<" ", " ">>)],
   [patient_id |-> JNull],
   [patient_id |-> Bool(TRUE), id |-> Arr(<<Str(<<"P", "5">>)>>)],
   [patient_id |-> Obj([toString |-> IntNum(1)])],
   [patientId |-> Str(<<"P", "6">>), id |-> Str(<<"P", "7", " ">>)]}

BpFields ==
  {<<>>, [blood_pressure |-> JNull],
   [blood_pressure |-> Str(<<"N", "/", "A">>)],
   [blood_pressure |-> SlashString(119, 79)],
   [blood_pressure |-> SlashString(125, 79)],
   [bloodPressure |-> SlashString(131, 79)],
   [bp |-> Arr(<<IntNum(150), IntNum(85)>>)],
   [blood_pressure |-> Obj(<<>>)],
   [blood_pressure |-> Obj([toString |-> IntNum(1)])],
   [bp |-> Arr(<<Obj([toString |-> JNull])>>)],
   [blood_pressure |-> JNull, bp |-> Arr(<<IntNum(150), IntNum(85)>>)]}

TempFields ==
  {<<>>, [temperature |-> Str(<<"T", "E", "M", "P", "_", "E", "R", "R", "O", "R">>)],
   [temperature |-> Num(Tenths(986))],
   [temperature |-> Num(Tenths(995))],
   [temperature |-> Num(Tenths(996))],
   [temp |-> Str(<<"1", "0", "0", ".", "9", "F">>)],
   [temperature |-> IntNum(101)],
   [temperature |-> Obj([toString |-> IntNum(1)])], [temperature |-> Bool(TRUE)],
   [temperature |-> Str(<<"T", "E", "M", "P", "_", "E", "R", "R", "O", "R">>),
    temp |-> IntNum(101)]}

AgeFields ==
  {<<>>, [age |-> Str(<<"u", "n", "k", "n", "o", "w", "n">>)],
   [age |-> IntNum(39)], [age |-> IntNum(40)], [age |-> IntNum(65)],
   [patient_age |-> Str(<<"6", "6">>)],
   [age |-> Arr(<<IntNum(70)>>)], [age |-> Obj([toString |-> IntNum(1)])],
   [age |-> JNull, patient_age |-> IntNum(70)]}

\* The patient records given to computePatientRisk, and records that are no
\* objects at all.
Records ==
  {Obj(i @@ b @@ t @@ a) :
     i \in IdFields, b \in BpFields, t \in TempFields, a \in AgeFields}
  \cup {JNull, Undefined, Str(<<"P", "1">>), IntNum(1),
        Arr(<<Obj([patient_id |-> Str(<<"P", "1">>)])>>)}

\* Rows of a page: two records, and rows that are no records.
RowA == Obj([patient_id |-> Str(<<"P", "1">>)])
RowB == Obj([id |-> Str(<<"P", "2">>)])

Rows ==
  {Arr(<<>>), Arr(<<RowA>>),
   Arr(<<RowB, IntNum(5), JNull, RowA, Str(<<"P", "3">>), Bool(TRUE), Arr(<<RowA>>)>>)}

\* What a response has under data, and what it has under patients.
DataShapes ==
  Rows \cup {Obj([patients |-> rows]) : rows \in Rows}
       \cup {Obj(<<>>), Obj([patients |-> Str(<<"P", "1">>)]), JNull, IntNum(1),
             Str(<<"P", "1">>)}

RootShapes == Rows \cup {JNull, Obj([data |-> Arr(<<RowA>>)])}

\* The responses given to normalizePatientsData, and responses that are no
\* objects or have neither key.
Responses ==
  {Obj(d @@ r) : d \in {<<>>} \cup {[data |-> x] : x \in DataShapes},
                 r \in {<<>>} \cup {[patients |-> x] : x \in RootShapes}}
  \cup {JNull, Undefined, Str(<<"B", "a", "d">>), Arr(<<RowA>>)}

\* The response bodies given to getPatientsPage: bare arrays of rows,
\* objects, and bodies that are neither.
PageBodyShapes ==
  Rows \cup {Obj([data |-> rows]) : rows \in Rows}
       \cup {Obj([patients |-> Arr(<<RowB>>)]), Obj(<<>>), JNull, Undefined,
             Str(<<"B", "a", "d">>), IntNum(0)}

\* buildAlertLists is given at most MaxComputed results.
MaxComputed == 3

\* Identifiers that differ in case and in length.
AlertIds == {<<"a">>, <<"B">>, <<"A", "b">>}

\* Vitals of total 4 without fever, of total 3, of total 2 with fever and two
\* invalid readings, of total 4 with fever and an invalid age, and of total 3
\* with the blood pressure the one valid reading.
AlertVitals ==
  {[bp |-> Arr(<<IntNum(150), IntNum(85)>>), temperature |-> Num(Tenths(986)),
    age |-> IntNum(40)],
   [bp |-> Arr(<<IntNum(150), IntNum(85)>>), temperature |-> Num(Tenths(986)),
    age |-> IntNum(39)],
   [blood_pressure |-> Str(<<"N", "/", "A">>), temperature |-> IntNum(101)],
   [bp |-> Arr(<<IntNum(150), IntNum(85)>>), temperature |-> Num(Tenths(996)),
    age |-> Str(<<"u", "n", "k", "n", "o", "w", "n">>)],
   [bp |-> Arr(<<IntNum(150), IntNum(85)>>),
    temperature |-> Str(<<"T", "E", "M", "P", "_", "E", "R", "R", "O", "R">>)]}

AlertPatients == {Obj([patient_id |-> Str(i)] @@ v) : i \in AlertIds, v \in AlertVitals}

\* The lists of results given to buildAlertLists: what computePatientRisk
\* returned for up to MaxComputed patients, in every order and repetition.
ComputedLists ==
  UNION {[1..k -> {computePatientRisk(p) : p \in AlertPatients}] : k \in 0..MaxComputed}

---------------------------------------------------------------------------
(* The scoring functions, each called once on an input *)

\* No scoring function is under call.
IdleScore == fn = "none" /\ arg = Undefined /\ ret = NoReturn /\ called = FALSE

NoResponse == Response(0, JNull, JNull)

NoOutcome == [kind |-> "none", status |-> 0, hint |-> NaN, body |-> JNull]

\* No request is under way.
IdleRequest ==
  /\ maxRetries = 0 /\ minDelayMs = 0 /\ attempt = 0 /\ backoffMs = 0
  /\ rpc = "idle" /\ res = NoResponse /\ outcome = NoOutcome
  /\ calls = 0 /\ sleeps = 0 /\ sleptMs = 0

\* No attempt of fetchNormalizedPage has slept, or the last one returned
\* records and did not sleep.
NoSleep == -1

\* The local variables of getAllPatientsWithMeta before the first request.
StartOfFetch(attempts, pagesBound) ==
  [maxPageAttempts |-> attempts, maxTotalPages |-> pagesBound,
   fpc |-> "first", page |-> 1, pageAttempt |-> 1,
   out |-> <<>>, missingPages |-> <<>>, seenIds |-> {},
   completeByHeuristic |-> FALSE, maxPageFetched |-> 0,
   expectedTotal |-> JNull, totalPages |-> JNull,
   noNewIdPagesInARow |-> 0, guard |-> 0,
   round |-> 0, stillMissing |-> <<>>, missingIndex |-> 0,
   patients |-> <<>>, meta |-> NoMeta]

\* The local variables of getAllPatientsWithMeta are those of s.
FetchIs(s) ==
  /\ maxPageAttempts = s.maxPageAttempts /\ maxTotalPages = s.maxTotalPages
  /\ fpc = s.fpc /\ page = s.page /\ pageAttempt = s.pageAttempt
  /\ out = s.out /\ missingPages = s.missingPages /\ seenIds = s.seenIds
  /\ completeByHeuristic = s.completeByHeuristic /\ maxPageFetched = s.maxPageFetched
  /\ expectedTotal = s.expectedTotal /\ totalPages = s.totalPages
  /\ noNewIdPagesInARow = s.noNewIdPagesInARow /\ guard = s.guard
  /\ round = s.round /\ stillMissing = s.stillMissing /\ missingIndex = s.missingIndex
  /\ patients = s.patients /\ meta = s.meta

\* No fetch is under way and nobody calls one.
IdleFetch ==
  /\ FetchIs([StartOfFetch(0, 0) EXCEPT !.fpc = "idle"])
  /\ inFlight = <<>> /\ rejection = NoOutcome /\ gaveRecords = {}
  /\ sleepBetweenAttemptsMs = 0 /\ attemptSleptMs = NoSleep /\ rowsGiven = {}
  /\ pagesRequested = {}
  /\ entry = "none" /\ shouldSubmit = FALSE /\ requireComplete = FALSE
  /\ run = "idle" /\ computed = <<>> /\ dropped = 0 /\ alerts = NoAlerts /\ posts = 0

InitScore ==
  /\ IdleRequest /\ IdleFetch
  /\ \/ fn = "scoreAge" /\ arg \in AgeInputs
     \/ fn = "scoreTemperature" /\ arg \in TempInputs
     \/ fn = "scoreBloodPressure" /\ arg \in BpInputs
     \/ fn = "computePatientRisk" /\ arg \in Records
     \/ fn = "buildAlertLists" /\ arg \in ComputedLists
     \/ fn = "normalizePatientsData" /\ arg \in Responses
     \/ fn = "getPatientsPage" /\ arg \in PageBodyShapes
  /\ ret = NoReturn
  /\ called = FALSE

Return(value) ==
  /\ ~called
  /\ ret' = value
  /\ called' = TRUE
  /\ UNCHANGED <<fn, arg, requestVars, fetchVars, transportVars, callerVars>>

CallScoreAge == fn = "scoreAge" /\ Return(scoreAge(arg))

CallScoreTemperature == fn = "scoreTemperature" /\ Return(scoreTemperature(arg))

CallScoreBloodPressure == fn = "scoreBloodPressure" /\ Return(scoreBloodPressure(arg))

CallComputePatientRisk == fn = "computePatientRisk" /\ Return(computePatientRisk(arg))

CallBuildAlertLists == fn = "buildAlertLists" /\ Return(buildAlertLists(arg))

\* The batch is returned as the array it is.
CallNormalizePatientsData ==
  fn = "normalizePatientsData" /\ Return(Arr(normalizePatientsData(arg)))

\* getPatientsPage when requestJson returns the body, and the batch that
\* fetchNormalizedPage makes of what it returns.
CallGetPatientsPage ==
  /\ fn = "getPatientsPage"
  /\ Return([resp |-> getPatientsPage(arg),
             patients |-> normalizePatientsData(getPatientsPage(arg))])

NextScore ==
  \/ CallScoreAge
  \/ CallScoreTemperature
  \/ CallScoreBloodPressure
  \/ CallComputePatientRisk
  \/ CallBuildAlertLists
  \/ CallNormalizePatientsData
  \/ CallGetPatientsPage

Init == InitScore

Next == NextScore

Spec == Init /\ [][Next]_vars

---------------------------------------------------------------------------
(* ApiClient.requestJson, one call *)

\* The largest maxRetries a client is built with.
MaxRetriesOpt == 3

\* The minDelayMs a client is built with: that of the tests, the default, and
\* values under and above the cap of the backoff.
MinDelays == {1, 200, 3000, 10000}

RetryAfterHeaders ==
  {JNull, Str(<<"0">>), Str(<<"2">>), Str(<<"-", "1">>), Str(<<"s", "o", "o", "n">>)}

Bodies429 ==
  {JNull, Str(<<"s", "l", "o", "w">>), Obj([error |-> Str(<<"r", "l">>)]),
   Obj([retry_after |-> IntNum(3)]),
   Obj([retryAfter |-> Str(<<"1">>), retryAfterSeconds |-> IntNum(9)]),
   Obj([retry_after |-> JNull, retryAfterSeconds |-> IntNum(9)]),
   Obj([retry_after |-> Str(<<"s", "o", "o", "n">>), retryAfter |-> IntNum(5)])}

\* The errors fetchImpl rejects with: the abort of the timer, a network error.
TransportCauses ==
  {<<"A", "b", "o", "r", "t", "E", "r", "r", "o", "r">>,
   <<"E", "C", "O", "N", "N", "R", "E", "S", "E", "T">>}

OkBodies == {JNull, Obj([data |-> Arr(<<>>)]), Str(<<"o", "k">>)}

InitRequest ==
  /\ IdleScore /\ IdleFetch
  /\ maxRetries \in 0..MaxRetriesOpt
  /\ minDelayMs \in MinDelays
  /\ attempt = 0
  /\ backoffMs = minDelayMs
  /\ rpc = "fetch"
  /\ res = NoResponse
  /\ outcome = NoOutcome
  /\ calls = 0
  /\ sleeps = 0
  /\ sleptMs = 0

\* fetchImpl is called and answers r (the top of the loop body).
Answer(r) ==
  /\ rpc = "fetch"
  /\ attempt' = attempt + 1
  /\ calls' = calls + 1
  /\ res' = r
  /\ UNCHANGED <<maxRetries, minDelayMs, backoffMs, scoreVars, fetchVars, transportVars,
                 callerVars>>

\* await this.sleepImpl(jitter(ms))
Sleep(ms) ==
  /\ sleeps' = sleeps + 1
  /\ sleptMs' \in jitter(ms)
  /\ rpc' = "sleep"
  /\ UNCHANGED outcome

Throw(err) ==
  /\ rpc' = "threw"
  /\ outcome' = err
  /\ UNCHANGED <<sleeps, sleptMs>>

\* The catch block without the test of attempt: every failure is retried.
Catch_alwaysRetry(err) == Sleep(backoffMs)

\* The catch block without a retry: what is thrown is thrown on.
Catch_noRetry(err) == Throw(err)

\* The catch block: what is thrown inside the try block, by fetchImpl or by
\* requestJson itself, is retried while attempts remain.
Catch(err) == IF attempt' <= maxRetries THEN Sleep(backoffMs) ELSE Throw(err)

\* The catch block, were the errors requestJson throws itself kept out of it.
Catch_rethrowHttp(err) ==
  IF err.kind = "transport" /\ attempt' <= maxRetries THEN Sleep(backoffMs) ELSE Throw(err)

FetchOk ==
  \E status \in {200, 201}, body \in OkBodies :
    /\ Answer(Response(status, JNull, body))
    /\ rpc' = "returned"
    /\ outcome' = [kind |-> "response", status |-> status, hint |-> NaN, body |-> body]
    /\ UNCHANGED <<sleeps, sleptMs>>

FetchRateLimited ==
  \E h \in RetryAfterHeaders, body \in Bodies429 :
    LET r == Response(429, h, body)
    IN /\ Answer(r)
       /\ IF attempt' <= maxRetries
          THEN Sleep(rateLimitWaitMs(r, backoffMs))
          ELSE Catch(HttpError(r))

FetchServerError ==
  \E status \in {500, 503} :
    LET r == Response(status, JNull, Str(<<"t", "m", "p">>))
    IN /\ Answer(r)
       /\ IF attempt' <= maxRetries
          THEN Sleep(backoffMs)
          ELSE Catch(HttpError(r))

FetchOtherStatus ==
  \E status \in {400, 404} :
    LET r == Response(status, JNull, Obj([error |-> Str(<<"n", "o">>)]))
    IN /\ Answer(r)
       /\ Catch(HttpError(r))

FetchThrows ==
  \E cause \in TransportCauses :
    /\ Answer(TransportFailure(cause))
    /\ Catch(TransportError(TransportFailure(cause)))

\* The sleep is over: the backoff doubles, up to its cap, and the loop goes on.
Backoff ==
  /\ rpc = "sleep"
  /\ backoffMs' = Min(backoffMs * 2, BackoffCapMs)
  /\ rpc' = "fetch"
  /\ UNCHANGED <<maxRetries, minDelayMs, attempt, res, outcome, calls, sleeps, sleptMs,
                 scoreVars, fetchVars, transportVars, callerVars>>

NextRequest ==
  \/ FetchOk
  \/ FetchRateLimited
  \/ FetchServerError
  \/ FetchOtherStatus
  \/ FetchThrows
  \/ Backoff

SpecRequest == InitRequest /\ [][NextRequest]_vars

\* Every await of requestJson settles: fetchImpl answers or, at the latest
\* when the timer aborts it, rejects, and the sleep ends.
SpecRequestFair == SpecRequest /\ WF_vars(NextRequest)

---------------------------------------------------------------------------
(* getAllPatientsWithMeta and its callers: runCli, and POST /submit of the server *)

\* The pages on which the server has records; every later page is empty.
ServedPages == 2

\* High risk with a fever, and no age.
PatientA ==
  Obj([patient_id |-> Str(<<"A">>), bp |-> Arr(<<IntNum(150), IntNum(95)>>),
       temp |-> IntNum(101)])

\* The same patient once more, under another key and with nothing to score.
PatientAAgain == Obj([id |-> Str(<<" ", "A">>)])

\* On no alert list.
PatientB ==
  Obj([patientId |-> Str(<<"B">>), bp |-> Arr(<<IntNum(110), IntNum(70)>>),
       temp |-> IntNum(98), age |-> IntNum(30)])

\* What would be on every alert list, had it an id.
PatientWithoutId ==
  Obj([patient_id |-> Str(<<" ">>), id |-> IntNum(9),
       bp |-> Arr(<<IntNum(150), IntNum(95)>>), temp |-> IntNum(101)])

\* The bodies of a page that has records.
PageBodies ==
  {Obj([data |-> Arr(<<PatientB, PatientA>>),
        pagination |-> Obj([total |-> IntNum(2), totalPages |-> IntNum(1)])]),
   Obj([data |-> Arr(<<PatientA>>), pagination |-> Obj([totalPages |-> IntNum(2)])]),
   Obj([data |-> Obj([patients |-> Arr(<<PatientB, PatientWithoutId>>)])]),
   Obj([patients |-> Arr(<<PatientAAgain, IntNum(5)>>),
        pagination |-> Obj([total |-> Str(<<"3">>)])]),
   Arr(<<PatientB>>)}

\* The bodies of a page without records.
EmptyBodies ==
  {EmptyData,
   Obj([data |-> Arr(<<>>),
        pagination |-> Obj([total |-> IntNum(2), totalPages |-> IntNum(6)])]),
   Str(<<"B", "a", "d">>)}

ServerBodies(p) == IF p <= ServedPages THEN PageBodies \cup EmptyBodies ELSE EmptyBodies

\* opts.maxPageAttempts and opts.maxTotalPages of a direct call; runCli and
\* the server call without options.
PageAttemptOptions == {Undefined, IntNum(0), IntNum(2)}
TotalPagesOptions == {IntNum(0), IntNum(3)}

Now ==
  [maxPageAttempts |-> maxPageAttempts, maxTotalPages |-> maxTotalPages,
   fpc |-> fpc, page |-> page, pageAttempt |-> pageAttempt,
   out |-> out, missingPages |-> missingPages, seenIds |-> seenIds,
   completeByHeuristic |-> completeByHeuristic, maxPageFetched |-> maxPageFetched,
   expectedTotal |-> expectedTotal, totalPages |-> totalPages,
   noNewIdPagesInARow |-> noNewIdPagesInARow, guard |-> guard,
   round |-> round, stillMissing |-> stillMissing, missingIndex |-> missingIndex,
   patients |-> patients, meta |-> meta]

Become(s) ==
  /\ maxPageAttempts' = s.maxPageAttempts /\ maxTotalPages' = s.maxTotalPages
  /\ fpc' = s.fpc /\ page' = s.page /\ pageAttempt' = s.pageAttempt
  /\ out' = s.out /\ missingPages' = s.missingPages /\ seenIds' = s.seenIds
  /\ completeByHeuristic' = s.completeByHeuristic /\ maxPageFetched' = s.maxPageFetched
  /\ expectedTotal' = s.expectedTotal /\ totalPages' = s.totalPages
  /\ noNewIdPagesInARow' = s.noNewIdPagesInARow /\ guard' = s.guard
  /\ round' = s.round /\ stillMissing' = s.stillMissing /\ missingIndex' = s.missingIndex
  /\ patients' = s.patients /\ meta' = s.meta

\* The clamps of the options at the top of getAllPatientsWithMeta.
Start(attemptsOpt, pagesOpt, sleepOpt) ==
  /\ FetchIs(StartOfFetch(
       Clamp(IntOf(Coalesce(attemptsOpt, IntNum(DefaultMaxPageAttempts))), 1, MaxPageAttemptsCap),
       Clamp(IntOf(Coalesce(pagesOpt, IntNum(DefaultMaxTotalPages))), 1, MaxTotalPagesCap)))
  /\ sleepBetweenAttemptsMs
       = Clamp(IntOf(Coalesce(sleepOpt, IntNum(DefaultSleepBetweenAttemptsMs))),
               0, MaxSleepBetweenAttemptsMs)

\* The options of a direct call: every choice of the two bounds with the
\* default sleep, and one call that sleeps 0 ms between attempts.
LibraryOptions ==
  {<<a, t, Undefined>> : a \in PageAttemptOptions, t \in TotalPagesOptions}
    \cup {<<IntNum(2), IntNum(3), IntNum(0)>>}

InitFetch ==
  /\ IdleScore /\ IdleRequest
  /\ \/ /\ entry = "library" /\ shouldSubmit = FALSE /\ requireComplete = FALSE
        /\ \E opts \in LibraryOptions : Start(opts[1], opts[2], opts[3])
     \/ /\ entry = "cli" /\ shouldSubmit \in BOOLEAN /\ requireComplete \in BOOLEAN
        /\ Start(Undefined, Undefined, Undefined)
     \/ /\ entry = "server" /\ shouldSubmit = TRUE /\ requireComplete = TRUE
        /\ Start(Undefined, Undefined, Undefined)
  /\ inFlight = <<>> /\ rejection = NoOutcome /\ gaveRecords = {}
  /\ attemptSleptMs = NoSleep /\ rowsGiven = {}
  /\ pagesRequested = {}
  /\ run = "fetching"
  /\ computed = <<>> /\ dropped = 0 /\ alerts = NoAlerts /\ posts = 0

\* The call made without `await`.
NotAwaited == TRUE

\* `await`: the fetch goes on only when the call it made has returned.
Awaited == inFlight = <<>>

\* The page fetchNormalizedPage is called with.
RequestedPage == IF fpc = "recover" THEN missingPages[missingIndex] ELSE page

\* fetchNormalizedPage calls client.getPatientsPage(page, limit).
RequestPage ==
  /\ run = "fetching"
  /\ fpc \in {"first", "scan", "recover"}
  /\ Awaited
  /\ inFlight' = Append(inFlight, RequestedPage)
  /\ pagesRequested' = pagesRequested \cup {RequestedPage}
  /\ UNCHANGED <<scoreVars, requestVars, fetchVars, rejection, gaveRecords,
                 sleepBetweenAttemptsMs, attemptSleptMs, rowsGiven, callerVars>>

\* The rows of a batch.
RowsOf(batch) == {batch[i] : i \in DOMAIN batch}

\* fetchNormalizedPage after an attempt that gave the batch: it returns the
\* records, or sleeps sleepBetweenAttemptsMs * attempt.
AttemptSleep(batch) ==
  IF batch # <<>> THEN NoSleep ELSE sleepBetweenAttemptsMs * pageAttempt

\* client.getPatientsPage(p, limit) returns, and the fetch goes on to its
\* next request or to its return.
PageArrives(p) ==
  /\ run = "fetching"
  /\ inFlight # <<>> /\ Head(inFlight) = p
  /\ inFlight' = Tail(inFlight)
  /\ \E body \in ServerBodies(p) :
       /\ \E next \in {fetchNormalizedPage(Now, getPatientsPage(body))} : Become(next)
       /\ gaveRecords' = IF normalizePatientsData(getPatientsPage(body)) # <<>>
                         THEN gaveRecords \cup {p} ELSE gaveRecords
       /\ attemptSleptMs' = AttemptSleep(normalizePatientsData(getPatientsPage(body)))
       /\ rowsGiven' = rowsGiven \cup RowsOf(normalizePatientsData(getPatientsPage(body)))
  /\ UNCHANGED <<scoreVars, requestVars, rejection, sleepBetweenAttemptsMs, pagesRequested,
                 callerVars>>

FetchFirstPage == fpc = "first" /\ PageArrives(1)

FetchScanPage == fpc = "scan" /\ PageArrives(page)

FetchRecoveryPage == fpc = "recover" /\ PageArrives(missingPages[missingIndex])

\* What requestJson throws in the end: the error of the last response, or
\* the error fetchImpl rejected with.
PageErrors ==
  {HttpError(Response(500, JNull, Str(<<"B", "a", "d">>)))}
    \cup {TransportError(TransportFailure(cause)) : cause \in TransportCauses}

\* The error caught, and what has been collected returned.
Thrown_partial(s) == Finish(s)

\* The error passes through getAllPatientsWithMeta: nothing is returned, and
\* of its local variables the records collected are kept here, out of reach.
Thrown(s) ==
  [StartOfFetch(s.maxPageAttempts, s.maxTotalPages) EXCEPT !.fpc = "threw", !.out = s.out]

\* requestJson throws in client.getPatientsPage: the fetch and its caller
\* fail with the error.
PageRequestFails ==
  /\ run = "fetching"
  /\ fpc \in {"first", "scan", "recover"}
  /\ inFlight # <<>>
  /\ inFlight' = Tail(inFlight)
  /\ \E err \in PageErrors : rejection' = err
  /\ UNCHANGED <<gaveRecords, sleepBetweenAttemptsMs, attemptSleptMs, rowsGiven,
                 pagesRequested>>
  /\ Become(Thrown(Now))
  /\ run' = "failed"
  /\ UNCHANGED <<scoreVars, requestVars, entry, shouldSubmit, requireComplete,
                 computed, dropped, alerts, posts>>

FetchReturnedTo(caller) == entry = caller /\ run = "fetching" /\ fpc = "returned"

CliGate == (shouldSubmit \/ requireComplete) /\ ~meta.complete

\* runCli: process.exit(1) at the gate.
CliRefuses ==
  /\ FetchReturnedTo("cli")
  /\ CliGate
  /\ run' = "refused"
  /\ UNCHANGED <<scoreVars, requestVars, fetchVars, transportVars, entry, shouldSubmit,
                 requireComplete,
                 computed, dropped, alerts, posts>>

\* The rest of a caller: the scoring loop, buildAlertLists and the POSTs.
Report(results, lost, submits) ==
  /\ computed' = results
  /\ dropped' = lost
  /\ alerts' = buildAlertLists(results)
  /\ posts' = posts + submits
  /\ run' = "reported"
  /\ UNCHANGED <<scoreVars, requestVars, fetchVars, transportVars, entry, shouldSubmit,
                 requireComplete>>

\* runCli past the gate: scores, writes the lists, and submits them with --submit.
CliReports ==
  /\ FetchReturnedTo("cli")
  /\ ~CliGate
  /\ Report(Computed(patients), Dropped(patients), IF shouldSubmit THEN 1 ELSE 0)

ServerGate ==
  /\ requireComplete
  /\ meta.expectedTotal # JNull
  /\ meta.uniquePatientIds > 0
  /\ meta.uniquePatientIds < IntOf(meta.expectedTotal)

\* POST /submit: computeAlerts throws, the answer is 502.
ServerRefuses ==
  /\ FetchReturnedTo("server")
  /\ ServerGate
  /\ run' = "refused"
  /\ UNCHANGED <<scoreVars, requestVars, fetchVars, transportVars, entry, shouldSubmit,
                 requireComplete,
                 computed, dropped, alerts, posts>>

\* POST /submit: computeAlerts returns the lists and submitAssessment posts them.
ServerSubmits ==
  /\ FetchReturnedTo("server")
  /\ ~ServerGate
  /\ Report(Computed(patients), 0, 1)

NextFetch ==
  \/ RequestPage
  \/ FetchFirstPage
  \/ FetchScanPage
  \/ FetchRecoveryPage
  \/ PageRequestFails
  \/ CliRefuses
  \/ CliReports
  \/ ServerRefuses
  \/ ServerSubmits

SpecFetch == InitFetch /\ [][NextFetch]_vars

\* One call of a scoring function, or one fetch and its caller.
SpecScoreOrFetch == (InitScore \/ InitFetch) /\ [][NextScore \/ NextFetch]_vars

---------------------------------------------------------------------------
(* Claims about the scoring functions, under Spec *)

AgeReturned == fn = "scoreAge" /\ called
TemperatureReturned == fn = "scoreTemperature" /\ called
BloodPressureReturned == fn = "scoreBloodPressure" /\ called
RiskReturned == fn = "computePatientRisk" /\ called

\* The rubric's age bands: the score of a truncated age a.
ThreeAgeBands(a) == IF a > 65 * Scale THEN 2 ELSE IF a < 40 * Scale THEN 0 ELSE 1

\* The age score of the parsed number: 2 above 65 and 1 otherwise.
TwoBandsHold(parsed, score) ==
  parsed.valid => score = IF Trunc(parsed.value.n) > 65 * Scale THEN 2 ELSE 1

ThreeBandsHold(parsed, score) ==
  parsed.valid => score = ThreeAgeBands(Trunc(parsed.value.n))

AgeResultHolds(parsed, r) ==
  IF parsed.valid
  THEN r.valid /\ r.score = ThreeAgeBands(Trunc(parsed.value.n))
  ELSE r = [score |-> 0, valid |-> FALSE, age |-> JNull]

SystolicStage(s) ==
  IF s < 120 * Scale THEN 0 ELSE IF s <= 129 * Scale THEN 1
  ELSE IF s <= 139 * Scale THEN 2 ELSE 3

DiastolicStage(d) ==
  IF d < 80 * Scale THEN 0 ELSE IF d <= 89 * Scale THEN 2 ELSE 3

HigherStageHolds(bp, r) ==
  bp.valid =>
    r = [score |-> Max(SystolicStage(bp.systolic.n), DiastolicStage(bp.diastolic.n)),
         valid |-> TRUE]

InTenths(t) == t % (Scale \div 10) = 0

TemperatureResultHolds(parsed, r) ==
  IF parsed.valid
  THEN InTenths(parsed.value.n) =>
         /\ r.valid
         /\ parsed.value.n <= Tenths(995) => r.score = 0 /\ ~r.fever
         /\ (parsed.value.n >= Tenths(996) /\ parsed.value.n <= Tenths(1009))
              => r.score = 1 /\ r.fever
         /\ parsed.value.n >= Tenths(1010) => r.score = 2 /\ r.fever
  ELSE r = [score |-> 0, valid |-> FALSE, fever |-> FALSE, temp |-> JNull]

\* C7: for a temperature given in tenths of a degree scoreTemperature returns
\* score 0 without fever up to 99.5, score 1 with fever from 99.6 to 100.9 and
\* score 2 with fever from 101.0; an input that does not parse gives
\* {score: 0, valid: false, fever: false, temp: null}.
C7_TemperatureBandsInTenths ==
  TemperatureReturned => TemperatureResultHolds(parseLooseNumber(arg), ret)

C7_Witness ==
  TemperatureReturned /\ arg = Num(Tenths(996)) /\ ret.score = 1 /\ ret.fever

BandsExhaustive(parsed, r) ==
  parsed.valid =>
    /\ parsed.value.n > Tenths(995) => r.score \in {1, 2}
    /\ r.fever => r.score >= 1

\* C8: at any decimal precision a parsed temperature above 99.5 scores 1 or
\* 2, and a fever scores at least 1.
C8_BandsExhaustive == TemperatureReturned => BandsExhaustive(parseLooseNumber(arg), ret)

RiskInvariantsHold(r, temp) ==
  /\ r.scores.total = r.scores.bp + r.scores.temp + r.scores.age
  /\ r.flags.dataQualityIssue
       = (~r.flags.bpValid \/ ~r.flags.tempValid \/ ~r.flags.ageValid)
  /\ r.flags.highRisk = (r.scores.total >= 4)
  /\ r.flags.fever = (r.flags.tempValid /\ temp.valid /\ temp.value.n >= Tenths(996))

\* C9: in every ComputedPatientRisk total is the sum of the three scores,
\* dataQualityIssue says that a category is invalid, highRisk that total is at
\* least 4, and fever that the temperature is valid and at least 99.6.
C9_RiskInvariants ==
  (RiskReturned /\ ret \notin {NullRisk, TypeError})
    => RiskInvariantsHold(ret, parseLooseNumber(pickField(arg, TempKeys)))

C9_Witness ==
  /\ RiskReturned /\ ret \notin {NullRisk, TypeError}
  /\ ret.scores.total = 4 /\ ret.flags.highRisk
  /\ ret.flags.dataQualityIssue /\ ~ret.flags.fever

AlertsReturned == fn = "buildAlertLists" /\ called

\* The three lists of the alerts a.
ListsOf(a) == {a.high_risk_patients, a.fever_patients, a.data_quality_issues}

NoIdTwice(list) == \A i, j \in DOMAIN list : list[i] = list[j] => i = j

\* The list ascends in the order of localeCompare.
AscendingByCollation(list) ==
  \A i, j \in DOMAIN list : i < j => localeCompare(list[i], list[j]) < 0

\* The UTF-16 code unit of a character of the identifiers: digits, then
\* capitals, then small letters.
CodeUnit(c) ==
  IF IsCapital(c) THEN 64 + (CHOOSE i \in DOMAIN Capitals : Capitals[i] = c)
  ELSE IF CollationRank(c) > 10 THEN 96 + CollationRank(c) - 10
  ELSE 47 + CollationRank(c)

\* a is before b in ordinal comparison, code unit by code unit.
RECURSIVE OrdinalBefore(_, _)
OrdinalBefore(a, b) ==
  IF b = <<>> THEN FALSE
  ELSE IF a = <<>> THEN TRUE
  ELSE IF CodeUnit(Head(a)) # CodeUnit(Head(b)) THEN CodeUnit(Head(a)) < CodeUnit(Head(b))
  ELSE OrdinalBefore(Tail(a), Tail(b))

AscendingByOrdinal(list) ==
  \A i, j \in DOMAIN list : i < j => OrdinalBefore(list[i], list[j])

\* The results of list in the order f.
Permuted(list, f) == [i \in DOMAIN list |-> list[f[i]]]

SameForEveryOrder(list, lists) ==
  \A f \in Permutations(DOMAIN list) : buildAlertLists(Permuted(list, f)) = lists

InList(id, list) == \E i \in DOMAIN list : list[i] = id

\* The identifiers of the results given to buildAlertLists.
IdsGiven == {arg[i].patientId : i \in DOMAIN arg}

\* The identifiers in one of the lists a.
IdsListed(a) == UNION {{list[i] : i \in DOMAIN list} : list \in ListsOf(a)}

\* C12: an identifier is in high_risk_patients exactly when a result given
\* under it has total at least 4, in fever_patients exactly when one has
\* fever, in data_quality_issues exactly when one has dataQualityIssue; no
\* list depends on another.
C12_MembershipByPredicate ==
  AlertsReturned =>
    \A id \in IdsGiven \cup IdsListed(ret) :
      /\ InList(id, ret.high_risk_patients)
           <=> \E i \in DOMAIN arg : arg[i].patientId = id /\ arg[i].scores.total >= 4
      /\ InList(id, ret.fever_patients)
           <=> \E i \in DOMAIN arg : arg[i].patientId = id /\ arg[i].flags.fever
      /\ InList(id, ret.data_quality_issues)
           <=> \E i \in DOMAIN arg : arg[i].patientId = id /\ arg[i].flags.dataQualityIssue

\* One patient of total exactly 4 is in the three lists, one of total 3 in
\* none, and one with fever and invalid readings in two.
C12_Witness ==
  /\ AlertsReturned
  /\ Len(arg) = 3
  /\ arg[1].patientId = <<"B">> /\ arg[1].scores.total = 4
  /\ arg[2].patientId = <<"a">> /\ arg[2].scores.total = 3
  /\ arg[3].patientId = <<"A", "b">>
  /\ ret = [high_risk_patients |-> <<<<"B">>>>,
            fever_patients |-> <<<<"A", "b">>, <<"B">>>>,
            data_quality_issues |-> <<<<"A", "b">>, <<"B">>>>]

\* The number of categories of the result r that are valid.
ValidCategories(r) ==
  Cardinality({c \in {"bp", "temp", "age"} :
                 \/ c = "bp" /\ r.flags.bpValid
                 \/ c = "temp" /\ r.flags.tempValid
                 \/ c = "age" /\ r.flags.ageValid})

\* An invalid category of r has score 0.
InvalidAddsZero(r) ==
  /\ ~r.flags.bpValid => r.scores.bp = 0
  /\ ~r.flags.tempValid => r.scores.temp = 0
  /\ ~r.flags.ageValid => r.scores.age = 0

\* What C13 says of one result r.
FewValidNeverHighRisk(r) ==
  /\ InvalidAddsZero(r)
  /\ (~r.flags.tempValid /\ ~r.flags.ageValid) =>
       /\ r.scores.total = r.scores.bp /\ r.scores.total <= 3
       /\ ~r.flags.highRisk /\ r.flags.dataQualityIssue
  /\ ValidCategories(r) <= 1 => ~r.flags.highRisk

IsComputedPatientRisk(r) ==
  /\ DOMAIN r = {"patientId", "scores", "flags"}
  /\ r.patientId \in Seq(STRING) /\ r.patientId # <<>>
  /\ DOMAIN r.scores = {"bp", "temp", "age", "total"}
  /\ \A k \in DOMAIN r.scores : r.scores[k] \in 0..7
  /\ DOMAIN r.flags = {"bpValid", "tempValid", "ageValid", "fever", "dataQualityIssue", "highRisk"}
  /\ \A k \in DOMAIN r.flags : r.flags[k] \in BOOLEAN

\* a has the three lists of identifiers.
IsAlertLists(a) ==
  /\ DOMAIN a = {"high_risk_patients", "fever_patients", "data_quality_issues"}
  /\ \A list \in ListsOf(a) : \A i \in DOMAIN list : list[i] # <<>>

\* C14: for every shape of record computePatientRisk returns null or a
\* ComputedPatientRisk and throws nothing, and buildAlertLists returns the
\* three lists for what it returned.
C14_NeverThrows ==
  /\ RiskReturned => (ret = NullRisk \/ (ret # TypeError /\ IsComputedPatientRisk(ret)))
  /\ AlertsReturned => IsAlertLists(ret)

\* The readings whose string "S/D" is given.
SystolicGiven == SysRange \cup {0, 135, 150}
DiastolicGiven == DiaRange \cup {0, 85, 95}

\* The string has one "/", and it is its first or its last character.
EmptySide(value) ==
  /\ TypeOf(value) = "string"
  /\ Len(value.s) >= 2
  /\ Cardinality({i \in DOMAIN value.s : value.s[i] = "/"}) = 1
  /\ value.s[1] = "/" \/ value.s[Len(value.s)] = "/"

\* What parseBloodPressure returned for value is what C26 says.
SlashReadingHolds(value, bp) ==
  /\ \A s \in SystolicGiven, d \in DiastolicGiven :
       value = SlashString(s, d)
         => bp = [systolic |-> IntNum(s), diastolic |-> IntNum(d), valid |-> TRUE]
  /\ EmptySide(value) => bp = [systolic |-> JNull, diastolic |-> JNull, valid |-> FALSE]
  /\ IF bp.valid THEN bp.systolic # JNull /\ bp.diastolic # JNull
     ELSE bp.systolic = JNull /\ bp.diastolic = JNull

\* C26: for integers S and D from 0 on parseBloodPressure("S/D") returns
\* {systolic: S, diastolic: D, valid: true}; for a string with an empty side
\* it returns {systolic: null, diastolic: null, valid: false}; and no reading
\* it returns is valid in part.
C26_SlashReading ==
  BloodPressureReturned => SlashReadingHolds(arg, parseBloodPressure(arg))

C26_Witness ==
  /\ BloodPressureReturned /\ arg = Str(<<"0", "/", "0">>)
  /\ parseBloodPressure(arg) = [systolic |-> IntNum(0), diastolic |-> IntNum(0), valid |-> TRUE]
  /\ ret = [score |-> 0, valid |-> TRUE]

\* One of the three scoring functions has returned a result.
ScoreReturned ==
  \/ AgeReturned
  \/ TemperatureReturned
  \/ BloodPressureReturned /\ ret # TypeError

\* C27: whatever the input, a result of scoreBloodPressure, scoreTemperature
\* or scoreAge that has valid: false has score 0.
C27_InvalidScoresZero == (ScoreReturned /\ ~ret.valid) => ret.score = 0

C27_Witness ==
  \/ /\ TemperatureReturned
     /\ arg = Str(<<"T", "E", "M", "P", "_", "E", "R", "R", "O", "R">>)
     /\ ret = [score |-> 0, valid |-> FALSE, fever |-> FALSE, temp |-> JNull]
  \/ /\ BloodPressureReturned /\ arg = Str(<<"N", "/", "A">>)
     /\ ret = [score |-> 0, valid |-> FALSE]


\* The keys a patient id is looked up under, in the order of the lookup.
IdCandidates == <<"patient_id", "patientId", "id", "patientID">>

\* The value is a string with something in it besides white space.
UsableAsId(v) == v.t = "string" /\ \E i \in DOMAIN v.s : v.s[i] \notin WhiteSpace

\* t is s without the white space at its two ends.
TrimmedTo(s, t) ==
  /\ t # <<>> /\ t[1] \notin WhiteSpace /\ t[Len(t)] \notin WhiteSpace
  /\ \E i \in 1..(Len(s) - Len(t) + 1) :
       /\ SubSeq(s, i, i + Len(t) - 1) = t
       /\ \A j \in DOMAIN s : (j < i \/ j >= i + Len(t)) => s[j] \in WhiteSpace

\* The id of the result is the trimmed value under the first candidate key
\* that has a usable value; with no such key there is no result.
FirstUsableCandidate(p, r) ==
  IF \A i \in DOMAIN IdCandidates : ~UsableAsId(Get(p, IdCandidates[i]))
  THEN r = NullRisk
  ELSE /\ r # NullRisk
       /\ r # TypeError =>
            \E i \in DOMAIN IdCandidates :
              /\ \A j \in 1..(i - 1) : ~UsableAsId(Get(p, IdCandidates[j]))
              /\ UsableAsId(Get(p, IdCandidates[i]))
              /\ TrimmedTo(Get(p, IdCandidates[i]).s, r.patientId)

\* C33: the patient id of a record is the trimmed value of the first of
\* patient_id, patientId, id, patientID that is a string with something in it
\* besides white space; a candidate that is absent, no string or blank is
\* passed over, and the record gives no result only when all four fail.
C33_FirstUsableCandidate == RiskReturned => FirstUsableCandidate(arg, ret)

\* The record has usable ids under patientId and under id, and no
\* patient_id: the result has the one under patientId.
C33_Witness ==
  /\ RiskReturned
  /\ ~HasKey(arg, "patient_id")
  /\ UsableAsId(Get(arg, "patientId")) /\ UsableAsId(Get(arg, "id"))
  /\ ret # TypeError /\ ret.patientId = <<"P", "6">>



\* The value under the first of the alias keys the record has, null
\* included; undefined when it has none of them.
FirstAliasPresent(p, keys) ==
  IF \A i \in DOMAIN keys : ~HasKey(p, keys[i]) THEN Undefined
  ELSE p.o[keys[CHOOSE i \in DOMAIN keys :
                  /\ HasKey(p, keys[i])
                  /\ \A j \in 1..(i - 1) : ~HasKey(p, keys[j])]]

\* The category is scored as its function scores raw, and is invalid when
\* raw is null or undefined.
ScoredFrom(raw, scored, score, valid) ==
  /\ score = scored.score /\ valid = scored.valid
  /\ raw.t \in {"null", "undefined"} => ~valid /\ score = 0

UsesFirstAliasPresent(p, r) ==
  /\ ScoredFrom(FirstAliasPresent(p, BpKeys),
                scoreBloodPressure(FirstAliasPresent(p, BpKeys)),
                r.scores.bp, r.flags.bpValid)
  /\ ScoredFrom(FirstAliasPresent(p, TempKeys),
                scoreTemperature(FirstAliasPresent(p, TempKeys)),
                r.scores.temp, r.flags.tempValid)
  /\ ScoredFrom(FirstAliasPresent(p, AgeKeys),
                scoreAge(FirstAliasPresent(p, AgeKeys)),
                r.scores.age, r.flags.ageValid)

\* C34: blood pressure, temperature and age are each scored from the value
\* under the first alias key the record has, in the order of the aliases,
\* even when that value is null: a null or invalid value under an earlier
\* alias is not replaced by a valid one under a later alias, and the
\* category is invalid. With no alias in the record the value is undefined
\* and the category is invalid.
C34_UsesFirstAliasPresent ==
  (RiskReturned /\ ret \notin {NullRisk, TypeError}) => UsesFirstAliasPresent(arg, ret)

\* The record has null under blood_pressure and age and an unreadable
\* temperature, each with a valid reading under a later alias, and all
\* three categories are invalid.
C34_Witness ==
  /\ RiskReturned /\ ret \notin {NullRisk, TypeError}
  /\ Get(arg, "blood_pressure") = JNull /\ Get(arg, "bp") = Arr(<<IntNum(150), IntNum(85)>>)
  /\ Get(arg, "temperature").t = "string" /\ Get(arg, "temp") = IntNum(101)
  /\ Get(arg, "age") = JNull /\ Get(arg, "patient_age") = IntNum(70)
  /\ ~ret.flags.bpValid /\ ~ret.flags.tempValid /\ ~ret.flags.ageValid
  /\ ret.scores.total = 0


BatchReturned == fn = "normalizePatientsData" /\ called

\* resp.data, resp.data.patients and resp.patients, in the order they are
\* looked at; a place that is not there is undefined.
BatchLocations(resp) ==
  <<Get(resp, "data"), Get(Get(resp, "data"), "patients"), Get(resp, "patients")>>

\* A row that is an object: a record or an array, and not null.
ObjectShaped(x) == x.t \in {"object", "array"}

\* The batch is the rows of the array that are objects, in their order.
RowsKept(array, batch) == batch = SelectSeq(array.a, ObjectShaped)

\* The batch comes from the first of the places that holds an array, and is
\* empty when none does.
FromFirstArray(places, batch) ==
  IF \A i \in DOMAIN places : places[i].t # "array" THEN batch = <<>>
  ELSE \E i \in DOMAIN places :
         /\ places[i].t = "array"
         /\ \A j \in 1..(i - 1) : places[j].t # "array"
         /\ RowsKept(places[i], batch)

\* C35: normalizePatientsData takes the batch from the first array among
\* resp.data, resp.data.patients and resp.patients, keeps the elements of it
\* that are objects, and returns an empty batch when none of the three is an
\* array; an earlier array wins even when it is empty and a later place has
\* records.
C35_FromFirstArray == BatchReturned => FromFirstArray(BatchLocations(arg), ret.a)

\* resp.data is an empty array, resp.patients has a record, and the batch
\* is empty.
C35_Witness ==
  /\ BatchReturned
  /\ Get(arg, "data") = Arr(<<>>) /\ Get(arg, "patients") = Arr(<<RowA>>)
  /\ ret = Arr(<<>>)


PageReturned == fn = "getPatientsPage" /\ called

\* C40: for a response body that is a bare array of patient objects,
\* getPatientsPage returns {data: body}, and the batch of the page is the
\* elements of the array that are objects, not an empty batch.
C40_BareArrayWrapped ==
  (PageReturned /\ IsArray(arg) /\ \E i \in DOMAIN arg.a : ObjectShaped(arg.a[i])) =>
    /\ ret.resp = Obj([data |-> arg])
    /\ RowsKept(arg, ret.patients)

\* What the code does with a bare array that has a record: getPatientsPage
\* returns the array itself, and the batch is empty.
C40_BareArrayLost ==
  /\ PageReturned /\ arg = Arr(<<RowA>>)
  /\ ret.resp = arg /\ ret.patients = <<>>

---------------------------------------------------------------------------
(* Claims about requestJson, under SpecRequest *)

\* A status that is neither a success nor one of 429, 500, 503.
OtherStatus(r) == ~r.threw /\ r.status \notin 200..299 /\ r.status \notin {429, 500, 503}

\* C1: when the first response has a status that is neither a success nor
\* 429, 500 or 503, requestJson has failed after that one call of fetchImpl,
\* without a sleep.
C1_OtherStatusFailsAtOnce ==
  (calls = 1 /\ OtherStatus(res)) => (rpc = "threw" /\ sleeps = 0)

\* requestJson has returned the response r.
ReturnedResponse(r) ==
  /\ rpc = "returned" /\ Ok(r)
  /\ outcome = [kind |-> "response", status |-> r.status, hint |-> NaN, body |-> r.body]

\* C15: while the responses are failures and no more than maxRetries of them
\* have come, requestJson has slept once after each and calls fetchImpl again;
\* a 2xx response after k failures, k <= maxRetries, is returned, after k + 1
\* calls of fetchImpl and k sleeps; nothing is thrown before call
\* maxRetries + 1.
C15_SuccessAfterFailures ==
  /\ calls = attempt
  /\ rpc = "fetch" => (calls <= maxRetries /\ sleeps = calls)
  /\ rpc = "sleep" => (calls <= maxRetries /\ sleeps = calls /\ ~Ok(res))
  /\ rpc = "returned" => (ReturnedResponse(res) /\ calls <= maxRetries + 1 /\ sleeps = calls - 1)
  /\ rpc = "threw" => calls = maxRetries + 1

\* A 429 with retry-after: 2 and then a 2xx response: two calls, one sleep of
\* the two seconds, and the response returned.
C15_Witness ==
  /\ ReturnedResponse(res)
  /\ maxRetries >= 1 /\ calls = 2 /\ sleeps = 1
  /\ minDelayMs = 200 /\ sleptMs = 2000

\* requestJson is over: it has returned or thrown.
RequestOver == rpc \in {"returned", "threw"}

\* fetchImpl has been called at most maxRetries + 1 times; what is returned
\* is a 2xx response, what is thrown the error of a response that is none.
WithinAttempts ==
  /\ calls <= maxRetries + 1
  /\ rpc = "returned" => ReturnedResponse(res)
  /\ rpc = "threw" => (~Ok(res) /\ outcome.kind \in {"http", "transport"})

\* C16: whatever the responses and transport failures, requestJson calls
\* fetchImpl at most maxRetries + 1 times, 429, 500/503 and transport
\* failures counted together, and comes to an end: it returns a 2xx response
\* or throws.
C16_Terminates == []WithinAttempts /\ <>RequestOver

\* Three failures and a last one, each of another kind, have used up the four
\* attempts of maxRetries = 3, and requestJson has thrown.
C16_Witness ==
  /\ rpc = "threw" /\ maxRetries = 3 /\ calls = 4 /\ sleeps = 3
  /\ res.status = 503 /\ sleptMs = 2000 /\ backoffMs = 1600

\* The error err is the one requestJson makes of, or has caught for, the
\* response r.
ErrorOf(r, err) ==
  /\ r.threw => err = [kind |-> "transport", status |-> 0, hint |-> NaN, body |-> r.body]
  /\ (~r.threw /\ r.status = 429) =>
       /\ err.kind = "http" /\ err.status = 429 /\ err.body = r.body
       /\ err.hint = IF IsFinite(retryAfterSecondsFromHeader(r))
                     THEN retryAfterSecondsFromHeader(r)
                     ELSE IF IsFinite(retryAfterSecondsFromBody(r))
                     THEN retryAfterSecondsFromBody(r)
                     ELSE NaN
  /\ (~r.threw /\ r.status \in {500, 503}) =>
       err = [kind |-> "http", status |-> r.status, hint |-> NaN, body |-> r.body]

\* C17: what requestJson throws after maxRetries + 1 failed attempts is the
\* error of the last attempt: for a 429 an error of status 429 with the retry
\* hint that could be parsed, for a 500 or 503 an error with the status and
\* the body, for a transport failure the error fetchImpl rejected with.
C17_LastError ==
  rpc = "threw" => (calls = maxRetries + 1 /\ ~Ok(res) /\ ErrorOf(res, outcome))

\* After a failure that was retried, the last attempt is a 429 whose body
\* carries the hint of 3 seconds, and the error thrown names it.
C17_Witness ==
  /\ rpc = "threw" /\ maxRetries = 1 /\ calls = 2 /\ sleeps = 1
  /\ res.status = 429 /\ res.retryAfter = JNull
  /\ outcome.kind = "http" /\ outcome.status = 429 /\ outcome.hint = IntNum(3)

\* The least wait C18 allows after the 429 response r under the backoff
\* backoff, in milliseconds: the larger of the hint, when r has one, and the
\* backoff.
LeastWaitMs(r, backoff) ==
  IF IsFinite(retryAfterSeconds(r))
  THEN Max((retryAfterSeconds(r).n \div Scale) * 1000, backoff)
  ELSE backoff

\* C18: after a 429 response with attempts remaining the duration given to
\* sleep is at least the larger of the hint in milliseconds and backoffMs.
C18_SleepsAtLeastHint ==
  (rpc = "sleep" /\ ~res.threw /\ res.status = 429) => sleptMs >= LeastWaitMs(res, backoffMs)

\* The backoff C19 gives the k-th retry, before jitter.
BackoffOfRetry(k) == Min(minDelayMs * 2^(k - 1), BackoffCapMs)

\* C19: whatever the failures, the backoff of the k-th retry is, before
\* jitter, min(minDelayMs x 2^(k-1), 8000) ms, the sleep after a failure that
\* is no 429 is the jitter of it, and backoffMs is never above 8000.
C19_BackoffDoublesToCap ==
  /\ backoffMs <= BackoffCapMs
  /\ rpc = "sleep" =>
       /\ backoffMs = BackoffOfRetry(sleeps)
       /\ (res.threw \/ res.status # 429) => sleptMs \in jitter(BackoffOfRetry(sleeps))

\* The keys of a 429 body that may carry the hint, in the order of C28.
HintKeys == <<"retry_after", "retryAfter", "retryAfterSeconds">>

\* The value of the first of the keys that the body has with a value other
\* than null; undefined when it has none.
RECURSIVE FirstPresent(_, _)
FirstPresent(body, keys) ==
  IF keys = <<>> THEN Undefined
  ELSE IF HasKey(body, Head(keys)) /\ body.o[Head(keys)] # JNull
  THEN body.o[Head(keys)]
  ELSE FirstPresent(body, Tail(keys))

\* The integer v parses as, or NaN.
AsInteger(v) == IF v.t \in {"string", "number"} THEN ParseInt(StringOf(v)) ELSE NaN

\* The hint C28 gives the 429 response r.
HintInOrder(r) ==
  IF IsFinite(AsInteger(r.retryAfter)) THEN AsInteger(r.retryAfter)
  ELSE IF r.body.t = "object" /\ IsFinite(AsInteger(FirstPresent(r.body, HintKeys)))
  THEN AsInteger(FirstPresent(r.body, HintKeys))
  ELSE NaN

\* The wait C28 gives, before jitter: the backoff without a hint; with one,
\* the hint in milliseconds, a negative hint as 0, or the backoff if larger.
WaitInOrder(hint, backoff) ==
  IF ~IsFinite(hint) THEN backoff
  ELSE IF hint.n < 0 THEN backoff
  ELSE Max(IntOf(hint) * 1000, backoff)

\* C28: the hint of a 429 response is the retry-after header when it parses
\* as an integer; else the first present of retry_after, retryAfter and
\* retryAfterSeconds of an object body when it parses as an integer; else
\* there is none and the wait is the backoff. A negative hint waits as 0. The
\* error thrown for the 429 carries the hint, the sleep is the jitter of the
\* wait.
C28_HintInOrder ==
  /\ (rpc = "threw" /\ ~res.threw /\ res.status = 429) => outcome.hint = HintInOrder(res)
  /\ (rpc = "sleep" /\ ~res.threw /\ res.status = 429)
       => sleptMs \in jitter(WaitInOrder(HintInOrder(res), backoffMs))

\* The header does not parse, retry_after of the body is null, and the sleep
\* is of the 9 seconds of retryAfterSeconds.
C28_Witness ==
  /\ rpc = "sleep" /\ res.status = 429
  /\ res.retryAfter = Str(<<"s", "o", "o", "n">>)
  /\ res.body = Obj([retry_after |-> JNull, retryAfterSeconds |-> IntNum(9)])
  /\ backoffMs = 200 /\ sleptMs = 9000

---------------------------------------------------------------------------
(* Claims about getAllPatientsWithMeta and its callers, under SpecFetch *)

\* C2: neither runCli nor POST /submit posts to /submit-assessment when
\* getAllPatientsWithMeta has returned meta.complete = false.
C2_NoSubmitWhenIncomplete == (fpc = "returned" /\ ~meta.complete) => posts = 0

\* No page of 1..tp is in the list of missing pages.
NoneMissingUpTo(tp, missing) ==
  \A p \in 1..tp : \A i \in DOMAIN missing : missing[i] # p

\* The verdict of the three ordered cases.
ThreeCases(total, tp, unique, fetched, missing) ==
  IF total # JNull THEN unique >= IntOf(total)
  ELSE IF tp # JNull THEN fetched >= IntOf(tp) /\ NoneMissingUpTo(IntOf(tp), missing)
  ELSE FALSE

\* C3: when getAllPatientsWithMeta returns, meta.complete says, if
\* expectedTotal was learned, that uniquePatientIds is at least expectedTotal;
\* else, if totalPages was learned, that the highest page fetched is at least
\* totalPages and no page of 1..totalPages is still missing; else it is false.
C3_CompleteInThreeCases ==
  fpc = "returned" =>
    meta.complete = ThreeCases(expectedTotal, totalPages, meta.uniquePatientIds,
                               maxPageFetched, missingPages)

C3_Witness ==
  /\ fpc = "returned" /\ expectedTotal # JNull /\ totalPages # JNull
  /\ meta.complete /\ meta.missingPages # <<>>

IdKeys == {"patient_id", "patientId", "id", "patientID"}

\* The record has no string with something besides white space under an id key.
IdLess(p) == \A k \in IdKeys : ~(Get(p, k).t = "string" /\ Trim(Get(p, k).s) # <<>>)

NotIdLess(p) == ~IdLess(p)

\* The strings under the id keys of the records, trimmed.
IdsUnderKeys(records) ==
  {Trim(Get(records[i], k).s) : i \in DOMAIN records, k \in IdKeys} \ {<<>>}

Entries(list) == {list[i] : i \in DOMAIN list}

NoEntryWithoutId(records, lists, results, lost) ==
  /\ \A i \in DOMAIN records :
       IdLess(records[i]) => computePatientRisk(records[i]) = NullRisk
  /\ Len(results) = Len(SelectSeq(records, NotIdLess))
  /\ lost \in {0, Len(SelectSeq(records, IdLess))}
  /\ lists = buildAlertLists(Computed(SelectSeq(records, NotIdLess)))
  /\ Entries(lists.high_risk_patients) \cup Entries(lists.fever_patients)
       \cup Entries(lists.data_quality_issues) \subseteq IdsUnderKeys(records)

\* C10: computePatientRisk returns null for a fetched record without a
\* non-blank string under patient_id, patientId, id and patientID, and the alert
\* lists built from the fetched records are those of the other records alone:
\* each entry is the id of one of them.
C10_NoIdNoAlert ==
  run = "reported" => NoEntryWithoutId(patients, alerts, computed, dropped)

C10_Witness ==
  /\ run = "reported"
  /\ \E i \in DOMAIN patients : IdLess(patients[i])
  /\ dropped = 1
  /\ alerts.high_risk_patients = <<<<"A">>>>
  /\ alerts.fever_patients = <<<<"A">>>>
  /\ alerts.data_quality_issues = <<<<"A">>>>

\* The identifiers of the records list[from..to].
IdsOfRange(list, from, to) == {getPatientIdFromRecord(list[i]).s : i \in from..to}

\* What has been collected is n records of n distinct identifiers, from a page
\* that gave total n and totalPages 1, and after them only records of these
\* identifiers.
ExactFirstPage(n) ==
  /\ expectedTotal = IntNum(n) /\ totalPages = IntNum(1)
  /\ n \in 1..Len(out)
  /\ \A i \in 1..Len(out) : HasId(out[i])
  /\ Cardinality(IdsOfRange(out, 1, n)) = n
  /\ IdsOfRange(out, n + 1, Len(out)) \subseteq IdsOfRange(out, 1, n)

\* getAllPatientsWithMeta is over: it has returned, or a request has thrown.
FetchOver == fpc \in {"returned", "threw"}

\* getAllPatientsWithMeta has returned n patients, all there are.
ReturnedComplete(n) ==
  /\ meta.complete /\ meta.uniquePatientIds = n /\ Len(patients) = n
  /\ IdsOfRange(patients, 1, n) = IdsOfRange(out, 1, n)

\* The attempts fetchNormalizedPage has left for its page.
AttemptsLeft == maxPageAttempts - pageAttempt

\* A bound on the requests the recovery passes have still to make: the rounds
\* to come, the missing pages to come in this round, the attempts left.
RecoveryRank ==
  1 + ((RecoveryRounds - round) * (MaxTotalPagesCap + 2) + (Len(missingPages) - missingIndex))
        * MaxPageAttemptsCap
    + AttemptsLeft

RecoveryRankMax ==
  1 + (RecoveryRounds * (MaxTotalPagesCap + 2) + MaxTotalPagesCap + 1) * MaxPageAttemptsCap
    + MaxPageAttemptsCap

\* ... the scan loop and what follows it: the passes to come of the loop.
ScanRank == 1 + RecoveryRankMax + (maxTotalPages - guard) * MaxPageAttemptsCap + AttemptsLeft

ScanRankMax == 1 + RecoveryRankMax + (MaxTotalPagesCap + 1) * MaxPageAttemptsCap

\* A bound on the requests getAllPatientsWithMeta has still to make.
FetchRank ==
  CASE fpc = "first" -> 1 + ScanRankMax + AttemptsLeft
    [] fpc = "scan" -> ScanRank
    [] fpc = "recover" -> RecoveryRank
    [] OTHER -> 0

\* C20: when page 1 gives N records of N distinct identifiers with pagination
\* {total: N, totalPages: 1} and the later pages give nothing or records of
\* these identifiers, getAllPatientsWithMeta comes to an end: each step of it
\* lowers the bound on the requests still to make, which is never negative.
\* When it returns, meta.complete is true, meta.uniquePatientIds is N and there
\* are N patients.
C20_ExactFirstPageComplete ==
  /\ [](\A n \in 1..3 : (fpc = "returned" /\ ExactFirstPage(n)) => ReturnedComplete(n))
  /\ [](FetchRank >= 0 /\ (FetchOver <=> FetchRank = 0))
  /\ [][(\E n \in 1..3 : ExactFirstPage(n)) => FetchRank' < FetchRank]_fetchVars

\* Page 1 gave the two patients with total 2 and totalPages 1, page 2 one of
\* them again, the pages after it nothing, and the fetch has returned the two.
C20_Witness ==
  /\ fpc = "returned" /\ ExactFirstPage(2)
  /\ Len(out) = 3 /\ missingPages = <<>> /\ maxPageFetched >= 6
  /\ ReturnedComplete(2)

\* The places of list whose record has an identifier.
WithId(list) == {i \in DOMAIN list : HasId(list[i])}

IdAt(list, i) == getPatientIdFromRecord(list[i]).s

\* The record at place i of patients is the first of out under its identifier.
FirstSeen(i) ==
  \E j \in WithId(out) :
    /\ out[j] = patients[i]
    /\ \A k \in WithId(out) : IdAt(out, k) = IdAt(out, j) => j <= k

\* What C21 says of the patients and the meta returned.
DedupedFirstSeenSorted ==
  /\ \A i, j \in WithId(patients) : IdAt(patients, i) = IdAt(patients, j) => i = j
  /\ \A i \in WithId(patients) : FirstSeen(i)
  /\ {IdAt(patients, i) : i \in WithId(patients)} = {IdAt(out, j) : j \in WithId(out)}
  /\ \A i \in WithId(patients), j \in DOMAIN patients :
       i < j => (HasNoId(patients[j]) \/ localeCompare(IdAt(patients, i), IdAt(patients, j)) < 0)
  /\ SelectSeq(patients, HasNoId) = SelectSeq(out, HasNoId)
  /\ meta.uniquePatientIds = Cardinality(WithId(patients))

\* C21: the patients getAllPatientsWithMeta returns hold one record for each
\* identifier collected, the first collected under it; the records with an
\* identifier come first, ascending by identifier, the records without one
\* are all kept as they were, and meta.uniquePatientIds counts the records
\* with an identifier.
C21_DedupedFirstSeenSorted == fpc = "returned" => DedupedFirstSeenSorted

\* Page 1 was empty, page 2 gave B and A, and the recovery pass gave for page 1
\* B once more and a record without identifier: returned are A, the B first
\* collected, and the record without identifier.
C21_Witness ==
  /\ fpc = "returned" /\ round >= 1
  /\ out = <<PatientB, PatientA, PatientB, PatientWithoutId>>
  /\ patients = <<PatientA, PatientB, PatientWithoutId>>
  /\ meta.uniquePatientIds = 2

\* fetchNormalizedPage has returned for a page of the scan loop.
PageScanned == fpc = "scan" /\ fpc' # "threw" /\ (fpc' # "scan" \/ page' # page)

\* The scan loop is over, and it was left by its break.
ScanStoppedEarly == fpc \in {"recover", "returned"} /\ guard < maxTotalPages

\* The page from which the early stop may apply.
ExpectedEnd(tp) == IF tp # JNull THEN IntOf(tp) ELSE 10

\* noNewIdPagesInARow counts no more than the pages scanned last, one after
\* the other, that gave no identifier not seen before.
StreakCountsPagesWithoutNewIds ==
  /\ (fpc = "first" /\ fpc' = "scan")
       => noNewIdPagesInARow' = (IF seenIds' = seenIds /\ out' = out THEN 1 ELSE 0)
  /\ PageScanned
       => noNewIdPagesInARow' = (IF seenIds' = seenIds THEN noNewIdPagesInARow + 1 ELSE 0)

\* The scan loop goes on to the next page unless the streak is of 5 pages and
\* the page is the expected end, or the bound of the loop is reached.
StopsOnlyPastExpectedEnd ==
  PageScanned =>
    IF noNewIdPagesInARow' >= 5 /\ page >= ExpectedEnd(totalPages')
    THEN fpc' # "scan" /\ page' = page /\ guard' = guard
    ELSE /\ page' = page + 1 /\ guard' = guard + 1
         /\ fpc' = "scan" <=> guard' < maxTotalPages

PagesScanned == maxPageFetched

\* C23: getAllPatientsWithMeta comes to an end when every request returns,
\* each step of it lowering the bound on the requests still to make, and its
\* scan requests no more than maxTotalPages distinct pages, whatever the
\* server returns.
C23_ScansAtMostMaxTotalPages ==
  /\ [][FetchRank' < FetchRank]_fetchVars
  /\ [](PagesScanned <= maxTotalPages)

\* What the fetch accumulates.
Accumulated == <<out, seenIds, missingPages>>

\* A call of client.getPatientsPage is made.
RequestIssued == Len(inFlight') > Len(inFlight)

\* A request is made only when none is in flight, for the page the fetch is
\* at, and the making of it changes nothing of the fetch.
IssuedOneAtATime ==
  RequestIssued =>
    /\ inFlight = <<>> /\ inFlight' = <<RequestedPage>>
    /\ UNCHANGED fetchVars

\* A step of the fetch, to the next attempt, the next page or the return, is
\* taken as the request in flight returns, and leaves none in flight.
ChangedBetweenRequests ==
  (fetchVars' # fetchVars) => (inFlight = <<RequestedPage>> /\ inFlight' = <<>>)

\* C24: in one getAllPatientsWithMeta at most one request is in flight; a
\* request is made only after the one before it has returned, for the page
\* and attempt the fetch is at, and the records accumulated, the identifiers
\* seen and the missing pages change only as a request returns, with none in
\* flight.
C24_OneRequestInFlight ==
  /\ [](Len(inFlight) <= 1)
  /\ [][IssuedOneAtATime /\ ChangedBetweenRequests]_vars

\* The scan has accumulated records, has a missing page, and its request for
\* page 3 is in flight.
C24_Witness ==
  /\ fpc = "scan" /\ inFlight = <<3>> /\ out # <<>> /\ missingPages # <<>>

\* requestJson throws in a call of client.getPatientsPage.
RequestThrows == fpc \in {"first", "scan", "recover"} /\ rejection' # rejection

\* getAllPatientsWithMeta has returned nothing.
NothingReturned == patients = <<>> /\ meta = NoMeta

\* C25: when requestJson throws on a page of the scan or of a recovery pass,
\* getAllPatientsWithMeta fails with the error of requestJson and returns
\* neither patients nor meta, whatever it has collected from the pages before;
\* and only then does it fail.
C25_FailsWithoutPartialResult ==
  /\ [][RequestThrows => (fpc' = "threw" /\ rejection' \in PageErrors)]_vars
  /\ []((fpc = "threw" <=> rejection # NoOutcome) /\ (fpc = "threw" => NothingReturned))

\* Records were collected, and a request then failed at the transport.
C25_Witness ==
  /\ fpc = "threw" /\ out = <<PatientB, PatientA, PatientB, PatientWithoutId>>
  /\ rejection.kind = "transport" /\ NothingReturned

\* fetchNormalizedPage has returned for page 1 or for a page of the scan loop.
PageTaken ==
  /\ fpc \in {"first", "scan"} /\ fpc' # "threw"
  /\ fpc' # fpc \/ page' # page

\* The records the step has added to those accumulated.
BatchTaken == SubSeq(out', Len(out) + 1, Len(out'))

\* The value kept is the one there was, or else the one the page carries.
FirstWins(current, kept, carried) == kept = IF current # JNull THEN current ELSE carried

\* expectedTotal and totalPages as the pagination of resp carries them: null
\* when the value does not parse.
CarriedTotal(resp) ==
  IF parseFiniteInt(Pagination(resp, "total")) = JNull THEN JNull
  ELSE Num(Max(parseFiniteInt(Pagination(resp, "total")).n, 0))

CarriedPages(resp) ==
  IF parseFiniteInt(Pagination(resp, "totalPages")) = JNull THEN JNull
  ELSE IntNum(Clamp(IntOf(parseFiniteInt(Pagination(resp, "totalPages"))), 1, maxTotalPages))

\* What a step of the fetch does to expectedTotal and totalPages.
PaginationLearnedOnce ==
  /\ expectedTotal # JNull => expectedTotal' = expectedTotal
  /\ totalPages # JNull => totalPages' = totalPages
  /\ ~PageTaken => UNCHANGED <<expectedTotal, totalPages>>
  /\ (PageTaken /\ (expectedTotal = JNull \/ totalPages = JNull)) =>
       \E body \in ServerBodies(page) :
         /\ normalizePatientsData(getPatientsPage(body)) = BatchTaken
         /\ FirstWins(expectedTotal, expectedTotal', CarriedTotal(getPatientsPage(body)))
         /\ FirstWins(totalPages, totalPages', CarriedPages(getPatientsPage(body)))

\* C29: in one run of getAllPatientsWithMeta expectedTotal and totalPages are
\* each set at most once, from the first page of the scan that carries a value
\* that parses; once set, neither is changed by a later page, and a recovery
\* fetch changes neither.
C29_PaginationLearnedOnce == [][fpc' # "threw" => PaginationLearnedOnce]_fetchVars

\* Page 1 gave total 2 and totalPages 1, page 2 gave total "3", and the fetch
\* has returned with the values of page 1.
C29_Witness ==
  /\ fpc = "returned" /\ out = <<PatientB, PatientA, PatientAAgain>>
  /\ expectedTotal = IntNum(2) /\ totalPages = IntNum(1)

\* The page p is on the list.
OnList(p, list) == \E i \in DOMAIN list : list[i] = p

\* The list of missing pages as the scan leaves it after the page it has taken.
MissingAfterScan == IF BatchTaken = <<>> THEN Append(missingPages, page) ELSE missingPages

\* The scan puts the page it has taken on the list when its batch is empty,
\* and no other; when the scan ends with no page to recover up to totalPages,
\* the passes run empty and empty the list.
MissingExactlyWhenEmpty ==
  PageTaken =>
    \/ missingPages' = MissingAfterScan
    \/ /\ fpc' = "returned" /\ totalPages' # JNull /\ missingPages' = <<>>
       /\ \A i \in DOMAIN MissingAfterScan : MissingAfterScan[i] > IntOf(totalPages')

\* fetchNormalizedPage has returned for a page of a recovery pass.
PageRecovered ==
  /\ fpc = "recover" /\ fpc' # "threw"
  /\ fpc' # "recover" \/ round' # round \/ missingIndex' # missingIndex

\* The pages found empty again in the pass under way, after the step: the
\* list that takes the place of missingPages when the pass is over.
StillMissingAfter == IF fpc' = "recover" /\ round' = round THEN stillMissing' ELSE missingPages'

\* A page that gave records in a pass is merged and leaves the list; a page
\* still empty stays on it.
RecoveredOrStillMissing ==
  PageRecovered =>
    IF out' # out
    THEN /\ seenIds' = seenIds \cup IdsIn(BatchTaken)
         /\ StillMissingAfter = stillMissing
    ELSE StillMissingAfter = Append(stillMissing, RequestedPage)

\* A recovery pass is under way only with totalPages known, it is the first
\* or the second, and the page it fetches is on the list and within totalPages.
RecoversOnlyMissingPages ==
  fpc = "recover" =>
    /\ totalPages # JNull /\ round \in {0, 1}
    /\ OnList(RequestedPage, missingPages) /\ RequestedPage <= IntOf(totalPages)
    /\ inFlight \in {<<>>, <<RequestedPage>>}

\* C30: the scan puts a page on the list of missing pages exactly when its
\* fetch with retries ended with an empty batch. The recovery runs only with
\* totalPages known, for at most 2 passes, and fetches only pages that are on
\* the list and not beyond totalPages; a page that gives records in a pass is
\* merged into what is accumulated and leaves the list, a page still empty
\* stays on it.
C30_MissingPagesAndRecovery ==
  /\ [][MissingExactlyWhenEmpty /\ RecoveredOrStillMissing]_fetchVars
  /\ [](RecoversOnlyMissingPages /\ round <= 2)

\* Page 1 and pages 3 to 7 were empty and totalPages is 6; the first pass
\* recovered page 1, and after the second pass pages 3 to 6 are still missing.
C30_Witness ==
  /\ fpc = "returned" /\ round = 2 /\ totalPages = IntNum(6)
  /\ out = <<PatientB, PatientA, PatientB, PatientWithoutId>>
  /\ missingPages = <<3, 4, 5, 6>>

\* The list ascends, and so has no page twice.
StrictlyAscending(list) == \A i, j \in DOMAIN list : i < j => list[i] < list[j]

\* What C31 says of the missing pages of the meta returned.
MissingPagesReported(missing) ==
  /\ StrictlyAscending(missing)
  /\ \A i \in DOMAIN missing :
       /\ missing[i] \in 1..maxPageFetched
       /\ missing[i] \notin gaveRecords
       /\ meta.totalPages # JNull => missing[i] <= IntOf(meta.totalPages)

\* C31: when getAllPatientsWithMeta returns, meta.missingPages ascends, has
\* no page twice, has only pages that were fetched and gave an empty batch
\* each time they were, in the scan and in the recovery passes, and with
\* totalPages known only pages of 1..totalPages.
C31_MissingPagesReported == fpc = "returned" => MissingPagesReported(meta.missingPages)

\* Page 1 was empty in the scan and gave records in the first pass; pages 3
\* to 7 were empty, totalPages is 6, and pages 3 to 6 are reported.
C31_Witness ==
  /\ fpc = "returned" /\ meta.totalPages = IntNum(6) /\ maxPageFetched = 7
  /\ gaveRecords = {1, 2} /\ meta.missingPages = <<3, 4, 5, 6>>


\* An attempt of fetchNormalizedPage is over: its call of the transport has
\* returned.
AttemptReturns == Len(inFlight') < Len(inFlight) /\ fpc' # "threw"

\* fetchNormalizedPage has returned: the fetch has left the page it was at.
PageFetched == PageTaken \/ PageRecovered

\* The transport is called for the attempt the fetch is at, which is one of
\* 1..maxPageAttempts, with maxPageAttempts one of 1..MaxPageAttemptsCap.
CallsWithinAttempts ==
  RequestIssued =>
    /\ maxPageAttempts \in 1..MaxPageAttemptsCap
    /\ pageAttempt \in 1..maxPageAttempts

\* An attempt that gives records returns them at once and does not sleep.
ReturnsAtFirstRecords ==
  (AttemptReturns /\ out' # out) =>
    /\ PageFetched
    /\ attemptSleptMs' = NoSleep
    /\ fpc' \in {"first", "scan", "recover"} => pageAttempt' = 1

\* An empty attempt sleeps sleepBetweenAttemptsMs * attempt; the page is
\* given up as empty at attempt maxPageAttempts, and before that the next
\* attempt follows.
EmptyAttemptSleeps ==
  (AttemptReturns /\ out' = out) =>
    /\ attemptSleptMs' = sleepBetweenAttemptsMs * pageAttempt
    /\ PageFetched <=> pageAttempt = maxPageAttempts
    /\ ~PageFetched =>
         /\ pageAttempt' = pageAttempt + 1
         /\ RequestedPage' = RequestedPage

\* A later empty attempt at a page.
EmptyAgain == AttemptReturns /\ out' = out /\ pageAttempt > 1

\* The sleeps after the empty attempts at one page never decrease, and
\* increase when sleepBetweenAttemptsMs is not 0.
SleepsIncreaseUnlessZero ==
  EmptyAgain =>
    /\ attemptSleptMs' >= attemptSleptMs
    /\ sleepBetweenAttemptsMs > 0 => attemptSleptMs' > attemptSleptMs
    /\ sleepBetweenAttemptsMs = 0 => attemptSleptMs' = 0

\* C32, as the code has it: one fetchNormalizedPage calls the transport at
\* most maxPageAttempts times, a number within 1..12; it returns at the first
\* attempt that gives records, with no further request; after every empty
\* attempt it sleeps sleepBetweenAttemptsMs * attempt, which increases from
\* attempt to attempt when sleepBetweenAttemptsMs is above 0 and is 0 every
\* time when it is 0; and it returns an empty page only after
\* maxPageAttempts empty attempts.
C32_PageAttempts ==
  [][/\ CallsWithinAttempts
     /\ ReturnsAtFirstRecords
     /\ EmptyAttemptSleeps
     /\ SleepsIncreaseUnlessZero]_vars

\* C32 as stated: the sleep after an empty attempt is longer than the sleep
\* after the empty attempt before it, whatever sleepBetweenAttemptsMs is.
C32_SleepsStrictlyIncrease == [][EmptyAgain => attemptSleptMs' > attemptSleptMs]_vars

\* Page 2 has been given up as empty after its second empty attempt, which
\* slept 500 ms, page 1 having given records at once.
C32_Witness ==
  /\ fpc = "scan" /\ page = 3 /\ pageAttempt = 1
  /\ maxPageAttempts = 2 /\ sleepBetweenAttemptsMs = 250
  /\ gaveRecords = {1} /\ missingPages = <<2>>
  /\ attemptSleptMs = 500


\* The record has an identifier.
Identified(p) == \E i \in DOMAIN IdCandidates : UsableAsId(Get(p, IdCandidates[i]))

\* The identifier of a record that has one: the trimmed string under the
\* first candidate key that has a usable one.
ResolvedId(p) ==
  Trim(Get(p, IdCandidates[CHOOSE i \in DOMAIN IdCandidates :
                             /\ UsableAsId(Get(p, IdCandidates[i]))
                             /\ \A j \in 1..(i - 1) :
                                  ~UsableAsId(Get(p, IdCandidates[j]))]).s)

\* The places of list that hold a record with the identifier id.
PlacesOf(id, list) == {i \in DOMAIN list : Identified(list[i]) /\ ResolvedId(list[i]) = id}

\* Every identifier of a row given by a page is the identifier of exactly
\* one of the records returned, and the identifiers seen are those of the
\* records returned.
NoIdLost(rows, returned, seen) ==
  /\ \A r \in rows : Identified(r) => Cardinality(PlacesOf(ResolvedId(r), returned)) = 1
  /\ seen = {ResolvedId(returned[i]) : i \in {j \in DOMAIN returned : Identified(returned[j])}}

\* C36: every patient identifier in a batch that a per-page fetch returned,
\* during the scan or a recovery pass, is in exactly one record of the
\* patients returned, and the identifiers counted as seen are the
\* identifiers of the records returned.
C36_NoIdLost == fpc = "returned" => NoIdLost(rowsGiven, patients, seenIds)

\* Patient A was given twice, under two keys, one of the times by a page
\* recovered in the second pass, and is returned once.
C36_Witness ==
  /\ fpc = "returned" /\ round = 2
  /\ {PatientA, PatientAAgain, PatientB} \subseteq rowsGiven
  /\ seenIds = {<<"A">>, <<"B">>}
  /\ Cardinality(PlacesOf(<<"A">>, patients)) = 1


\* Some page at or past tp has been requested.
RequestedThrough(tp) == \E p \in pagesRequested : p >= tp

\* With totalPages returned, it is within maxTotalPages, a page at or past
\* it has been fetched, and, with no expected total, the fetch is complete
\* exactly when no page is missing.
FetchedThroughTotalPages(m) ==
  m.totalPages # JNull =>
    /\ IntOf(m.totalPages) \in 1..maxTotalPages
    /\ RequestedThrough(IntOf(m.totalPages))
    /\ maxPageFetched >= IntOf(m.totalPages)
    /\ m.expectedTotal = JNull => (m.complete <=> m.missingPages = <<>>)

\* C37: when getAllPatientsWithMeta returns with meta.totalPages known, the
\* highest page it has fetched is at or past meta.totalPages, whatever the
\* server answers and whatever maxTotalPages is, totalPages being clamped to
\* maxTotalPages and learned on any page of the scan; so with totalPages
\* alone known the fetch is complete exactly when no page is missing.
C37_FetchedThroughTotalPages == fpc = "returned" => FetchedThroughTotalPages(meta)

\* totalPages 6 was learned on a page after the first and clamped to a
\* maxTotalPages of 3, and the scan has gone through page 4.
C37_Witness ==
  /\ fpc = "returned" /\ maxTotalPages = 3
  /\ meta.totalPages = IntNum(3) /\ meta.expectedTotal # JNull
  /\ gaveRecords = {1} /\ pagesRequested = 1..4


\* A fetch reported complete has no missing page when no expected total was
\* learned; when one was learned it has at least that many identifiers,
\* whatever pages are missing.
CompleteWithoutMissing(m) ==
  m.complete =>
    IF m.expectedTotal = JNull
    THEN m.totalPages # JNull /\ m.missingPages = <<>>
    ELSE m.uniquePatientIds >= IntOf(m.expectedTotal)

\* C38, as the code has it: a fetch that learned no expected total is
\* reported complete only with meta.missingPages empty; a fetch that learned
\* one is reported complete when it has that many identifiers, also with
\* pages of the known range still missing after retry and recovery.
C38_CompleteWithoutMissing == fpc = "returned" => CompleteWithoutMissing(meta)

\* C38 as stated: a fetch reported complete has no missing page.
C38_CompleteHasNoMissingPage ==
  (fpc = "returned" /\ meta.complete) => meta.missingPages = <<>>

\* Page 2 of 2 was empty in the scan and gave records in the first recovery
\* pass; no expected total was learned, and the fetch is complete.
C38_Witness ==
  /\ fpc = "returned" /\ meta.complete
  /\ meta.expectedTotal = JNull /\ meta.totalPages = IntNum(2)
  /\ round >= 1 /\ gaveRecords = {1, 2} /\ meta.missingPages = <<>>


\* What computePatientRisk returned has the identifier getPatientIdFromRecord
\* finds in the record, and is null when it finds none.
SameResolver(p, r) ==
  /\ r = NullRisk <=> getPatientIdFromRecord(p) = NoId
  /\ r \notin {NullRisk, TypeError} => r.patientId = getPatientIdFromRecord(p).s

\* One result for each identifier the fetch has counted.
OneResultPerId(results, m) ==
  /\ Len(results) = m.uniquePatientIds
  /\ \A i, j \in DOMAIN results : results[i].patientId = results[j].patientId => i = j

\* C39: getPatientIdFromRecord of api.ts and getPatientId of scoring.ts
\* return the same for every record, so the number of results computed from
\* a fetch is meta.uniquePatientIds and no two of them have the same
\* patientId.
C39_SameResolver ==
  /\ RiskReturned => SameResolver(arg, ret)
  /\ run = "reported" => OneResultPerId(computed, meta)

\* Patient A was fetched under two keys, once with white space around the
\* identifier: runCli has two results for the two identifiers fetched.
C39_Witness ==
  /\ run = "reported" /\ entry = "cli"
  /\ {PatientA, PatientAAgain, PatientB} \subseteq rowsGiven
  /\ Len(computed) = 2 /\ meta.uniquePatientIds = 2

====
